---------------------------- MODULE Spec2Model ----------------------------
(***************************************************************************)
(* ChainLance ASI agents: the verification orchestration layer.            *)
(*                                                                         *)
(* The repository holds four separate programs, each with its own          *)
(* in-memory state:                                                        *)
(*   "agentverse"  src/asi_agents/agentverse_coordinator.py                *)
(*   "bridge"      src/asi_agents/http_bridge.py                           *)
(*   "verifier"    src/asi-agents/verification_agent.py with               *)
(*                 src/agents/multi_agent_verifier.py,                     *)
(*                 src/protocols/asi_one_chat.py, src/metta/...            *)
(*   "registry"    src/asi-agents/agent_coordinator.py                     *)
(* A behaviour of this module is a run of one of them (variable program).  *)
(*                                                                         *)
(* Numbers.  Confidences and scores are Python floats in [0,1]; the model  *)
(* keeps them as integers in hundredths and every quotient as an exact     *)
(* fraction [num, den] in lowest terms, so comparisons with the 0.66 and   *)
(* 0.70 thresholds are exact.  Float rounding of sums is not modelled.     *)
(*                                                                         *)
(* Scheduling.  A uAgents agent takes its messages from one queue and      *)
(* awaits each handler before the next message, so a message handler is    *)
(* one action.                                                             *)
(***************************************************************************)
EXTENDS Integers, Sequences, FiniteSets, TLC

VARIABLES
    program,               \* which of the four programs this run is
    active_verifications,  \* AgentverseCoordinator.active_verifications
    notified,              \* what the last handled message passed to _notify_http_bridge
    verification_requests, \* ASIAgentBridge.verification_requests
    sim_tasks,             \* _simulate_verification_process tasks created and not yet run
    active_tasks,          \* MultiAgentVerificationCoordinator.active_tasks
    verification_results,  \* MultiAgentVerificationCoordinator.verification_results
    conversations,         \* its asi_one_chat.conversations
    registered_agents,     \* agent_coordinator.registered_agents, in insertion order
    active_requests,       \* agent_coordinator.active_requests
    sent,                  \* what the last handled message made agent_coordinator send
    warned,                \* the requests the last sweep of monitor_agents logged as stuck
    responding,            \* the calls of handle_work_response that reached its first
                           \* await, in the order they began, and where each one is
    ignored                \* the id field the last handler did not find on record, or the
                           \* message model the last message did not validate against, if any

agentverse_vars == <<active_verifications, notified>>
bridge_vars == <<verification_requests, sim_tasks>>
verifier_vars == <<active_tasks, verification_results, conversations>>
registry_vars == <<registered_agents, active_requests, sent, warned, responding>>
vars == <<program, agentverse_vars, bridge_vars, verifier_vars, registry_vars, ignored>>

\* the value of ignored after a handler: id_field names the field of its
\* message or call that holds a conversation, request or agent id, and known
\* says whether that id was on record when the handler started
Handled(id_field, known) == IF known THEN "" ELSE id_field

Programs == {"agentverse", "bridge", "verifier", "registry"}

\* no request logged as stuck by monitor_agents
NoWarnings == [stuck_requests |-> {}]

-----------------------------------------------------------------------------
(* Bounds of the model *)

\* results a verification holds beyond which no further AgentVerificationResult
\* message for it is delivered
MaxResults == 3

\* _simulate_verification_process tasks of one request id that wait at a time
MaxSimTasks == 2

\* messages a conversation holds beyond which no chat operation is called on it
MaxMessages == 6

\* responses counted for one registered agent beyond which no WorkResponse
\* naming it is delivered
MaxResponses == 2
\* requests assigned to an agent without a heartbeat of it in between
MaxAssignments == 3

\* request ids of JobVerificationRequest messages
RequestIds == {"verify_1"}
\* request ids of AgentVerificationResult messages: "verify_2" is never requested
ReqIds == RequestIds \cup {"verify_2"}

\* confidence values (hundredths) a result message may carry
ConfValues == {10, 60, 80, 90, 100}

-----------------------------------------------------------------------------
(* Exact fractions *)

RECURSIVE GCD(_, _)
GCD(a, b) == IF b = 0 THEN a ELSE GCD(b, a % b)

\* n / d in lowest terms (d > 0, n >= 0)
Frac(n, d) == LET g == GCD(n, d) IN [num |-> n \div g, den |-> d \div g]

\* x >= y for fractions
FracGE(x, y) == x.num * y.den >= y.num * x.den

\* a percentage as a fraction
Pct(p) == Frac(p, 100)

-----------------------------------------------------------------------------
(* agentverse_coordinator.py *)

\* the value of a key a dict does not have
Missing == "<missing>"

\* _get_local_agents()
LocalAgents ==
    << [address |-> "local_code_reviewer", name |-> "ChainLance Code Reviewer"],
       [address |-> "local_quality_analyst", name |-> "ChainLance Quality Analyst"],
       [address |-> "local_requirements_validator",
        name |-> "ChainLance Requirements Validator"] >>

\* What _filter_agents may return, best relevance first: nothing (the search
\* failed or nothing was suitable), or entries of the Agentverse search.
\* _filter_agents asks an entry for neither an "address" nor a "name", so one
\* may come without.
SuitableAgentLists ==
    { << >>,
      << [address |-> Missing, name |-> "Agentverse Reviewer 2"],
         [address |-> "agentverse_1", name |-> "Agentverse Reviewer 1"],
         [address |-> "agentverse_3", name |-> Missing],
         [address |-> "agentverse_4", name |-> "Agentverse Reviewer 4"] >>,
      << [address |-> "agentverse_5", name |-> Missing],
         [address |-> "agentverse_1", name |-> "Agentverse Reviewer 1"] >> }

\* return suitable_agents[:3]
MaxAssignedAgents == 3

DiscoverAgentsUntruncated(suitable_agents) == suitable_agents

\* _discover_agents(job_data): the top three of the suitable agents
DiscoverAgents(suitable_agents) ==
    SubSeq(suitable_agents, 1,
           IF Len(suitable_agents) <= MaxAssignedAgents
           THEN Len(suitable_agents) ELSE MaxAssignedAgents)

DiscoveryOutcomes == { DiscoverAgents(l) : l \in SuitableAgentLists }

\* agent_address values of AgentVerificationResult messages
ResultAddresses == {"agentverse_1"}

\* os.getenv("CONSENSUS_THRESHOLD", "0.66"), in percent
CONSENSUS_THRESHOLD == 66
\* confidence_threshold = 0.7, in percent
CONFIDENCE_THRESHOLD == 70

NoConsensus == [none |-> TRUE]

RECURSIVE SumConfidence(_)
SumConfidence(rs) ==
    IF rs = << >> THEN 0 ELSE Head(rs).confidence_score + SumConfidence(Tail(rs))

ApprovedResults(rs) == SelectSeq(rs, LAMBDA r : r.approved)

\* the mean over every result in place of the mean over the approving ones
AvgConfidenceOfAll(results) ==
    IF results # << >>
    THEN Frac(SumConfidence(results), 100 * Len(results))
    ELSE Frac(0, 1)

\* avg_confidence of _calculate_consensus: the mean over the approving results
AvgConfidence(results) ==
    LET approved_results == ApprovedResults(results)
    IN  IF approved_results # << >>
        THEN Frac(SumConfidence(approved_results), 100 * Len(approved_results))
        ELSE Frac(0, 1)

\* approval_rate of _calculate_consensus
ApprovalRate(results) == Frac(Len(ApprovedResults(results)), Len(results))

\* a strict confidence threshold in place of the inclusive one
FinalApprovedStrict(approval_rate, avg_confidence) ==
    /\ FracGE(approval_rate, Pct(CONSENSUS_THRESHOLD))
    /\ ~FracGE(Pct(CONFIDENCE_THRESHOLD), avg_confidence)

\* final_approved of _calculate_consensus
FinalApproved(approval_rate, avg_confidence) ==
    /\ FracGE(approval_rate, Pct(CONSENSUS_THRESHOLD))
    /\ FracGE(avg_confidence, Pct(CONFIDENCE_THRESHOLD))

ConsensusResultOfFirstArrival(request_id, results) ==
    LET approval_rate == ApprovalRate(results)
        avg_confidence == AvgConfidence(results)
        final_approved == results[1].approved
    IN  [request_id |-> request_id,
         approved |-> final_approved,
         approval_rate |-> approval_rate,
         confidence_score |-> avg_confidence,
         agent_count |-> Len(results),
         results |-> results,
         payment_released |-> final_approved]

\* the ConsensusResult built by _calculate_consensus from a non-empty result list
ConsensusResult(request_id, results) ==
    LET approval_rate == ApprovalRate(results)
        avg_confidence == AvgConfidence(results)
        final_approved == FinalApproved(approval_rate, avg_confidence)
    IN  [request_id |-> request_id,
         approved |-> final_approved,
         approval_rate |-> approval_rate,
         confidence_score |-> avg_confidence,
         agent_count |-> Len(results),
         results |-> results,
         payment_released |-> final_approved]

\* The coordinator's state as one value, for the helpers handlers share.
CoordState(av, nt) == [av |-> av, nt |-> nt]

\* _calculate_consensus(request_id)
CalculateConsensus(st, request_id) ==
    LET verification == st.av[request_id]
        results == verification.results
    IN  IF results = << >>
        THEN st
        ELSE LET consensus == ConsensusResult(request_id, results)
             IN  CoordState(
                    [st.av EXCEPT ![request_id] =
                        [verification EXCEPT !.status = "completed",
                                             !.consensus = consensus]],
                    Append(st.nt, consensus))

ProcessAgentResultOpeningRecord(st, result) ==
    LET request_id == result.request_id
    IN  IF request_id \notin DOMAIN st.av
        THEN CoordState([r \in DOMAIN st.av \cup {request_id} |->
                            IF r = request_id
                            THEN [agents |-> << >>, results |-> << result >>,
                                  consensus |-> NoConsensus, status |-> "in_progress"]
                            ELSE st.av[r]],
                        st.nt)
        ELSE LET verification == st.av[request_id]
                 appended == [st.av EXCEPT ![request_id].results = Append(@, result)]
                 expected_count == Len(verification.agents)
                 received_count == Len(verification.results) + 1
             IN  IF received_count >= expected_count
                 THEN CalculateConsensus(CoordState(appended, st.nt), request_id)
                 ELSE CoordState(appended, st.nt)

\* _process_agent_result(ctx, result)
ProcessAgentResult(st, result) ==
    LET request_id == result.request_id
    IN  IF request_id \notin DOMAIN st.av
        THEN st
        ELSE LET verification == st.av[request_id]
                 appended == [st.av EXCEPT ![request_id].results = Append(@, result)]
                 expected_count == Len(verification.agents)
                 received_count == Len(verification.results) + 1
             IN  IF received_count >= expected_count
                 THEN CalculateConsensus(CoordState(appended, st.nt), request_id)
                 ELSE CoordState(appended, st.nt)

\* What _simulate_agent_response draws: approved with confidence in [0.6, 0.95],
\* or rejected with confidence in [0.2, 0.6].
SimDraws ==
    { d \in [approved : BOOLEAN, confidence_score : ConfValues] :
        IF d.approved THEN d.confidence_score >= 60 /\ d.confidence_score <= 95
                      ELSE d.confidence_score >= 20 /\ d.confidence_score <= 60 }

SimResult(request_id, agent, d) ==
    [request_id |-> request_id, agent_address |-> agent.address,
     approved |-> d.approved, confidence_score |-> d.confidence_score]

\* The loop of _coordinate_verification from agent i on.  An entry without a
\* "name" raises in the try block and again in its except clause, which ends the
\* loop; an entry without an "address" raises in the try block and is skipped;
\* every other agent's response is simulated and processed.
RECURSIVE SendToAgents(_, _, _, _, _)
SendToAgents(st, request_id, agents, draws, i) ==
    IF i > Len(agents) THEN st
    ELSE IF agents[i].name = Missing THEN st
    ELSE LET next == IF agents[i].address = Missing
                     THEN st
                     ELSE ProcessAgentResult(st, SimResult(request_id, agents[i], draws[i]))
         IN  SendToAgents(next, request_id, agents, draws, i + 1)

\* _coordinate_verification(ctx, request, agents)
CoordinateVerification(st, request_id, agents, draws) ==
    LET fresh == [agents |-> agents, results |-> << >>,
                  status |-> "in_progress", consensus |-> NoConsensus]
        stored == [r \in DOMAIN st.av \cup {request_id} |->
                      IF r = request_id THEN fresh ELSE st.av[r]]
    IN  SendToAgents(CoordState(stored, st.nt), request_id, agents, draws, 1)

\* the discovered agents as they are, without the fallback
AgentsForWithoutFallback(discovered) == discovered

\* handle_verification_request falls back to the local agents when discovery
\* returns nothing
AgentsFor(discovered) == IF discovered = << >> THEN LocalAgents ELSE discovered

\* handle_verification_request: a JobVerificationRequest message.  The bridge
\* builds a new request id for every submission, so the id is not yet known.
HandleVerificationRequest(request_id, discovered, draws) ==
    /\ program = "agentverse"
    /\ request_id \notin DOMAIN active_verifications
    /\ LET agents == AgentsFor(discovered)
           st == CoordinateVerification(
                    CoordState(active_verifications, << >>),
                    request_id, agents, draws)
       IN  /\ active_verifications' = st.av
           /\ notified' = st.nt
    /\ ignored' = Handled("request_id", TRUE)
    /\ UNCHANGED <<program, bridge_vars, verifier_vars, registry_vars>>

\* handle_agent_result: an AgentVerificationResult message
HandleAgentResult(result) ==
    /\ program = "agentverse"
    /\ result.request_id \in DOMAIN active_verifications =>
          Len(active_verifications[result.request_id].results) < MaxResults
    /\ LET st == ProcessAgentResult(
                    CoordState(active_verifications, << >>), result)
       IN  /\ active_verifications' = st.av
           /\ notified' = st.nt
    /\ ignored' = Handled("request_id", result.request_id \in DOMAIN active_verifications)
    /\ UNCHANGED <<program, bridge_vars, verifier_vars, registry_vars>>

\* confidence_score is a float the message model does not bound: a result may
\* report a confidence above 1
OutOfRangeResults ==
    [request_id : RequestIds, agent_address : {"agentverse_1"},
     approved : {TRUE}, confidence_score : {150}]

ResultMessages ==
    [request_id : ReqIds, agent_address : ResultAddresses,
     approved : BOOLEAN, confidence_score : ConfValues]
    \cup OutOfRangeResults


-----------------------------------------------------------------------------
(* http_bridge.py *)

\* request ids submit_verification_request builds from contract id, milestone
\* index and the time in whole seconds
BridgeRequestIds == {"verify_7_0_1700000000"}

\* the three mock agents of _initialize_mock_data, in dict order
BridgeAgents == << "agent1qcode123...", "agent1qqual456...", "agent1qreq789..." >>

\* What _simulate_verification_process draws for one agent: approved with
\* confidence in [0.7, 0.95], or rejected with confidence in [0.3, 0.6].
BridgeDraws ==
    { d \in [approved : BOOLEAN, confidence_score : ConfValues] :
        IF d.approved THEN d.confidence_score >= 70 /\ d.confidence_score <= 95
                      ELSE d.confidence_score >= 30 /\ d.confidence_score <= 60 }

BridgeMockResults(request_id, draws) ==
    [i \in 1..Len(BridgeAgents) |->
        [request_id |-> request_id, agent_address |-> BridgeAgents[i],
         approved |-> draws[i].approved,
         confidence_score |-> draws[i].confidence_score]]

Max(a, b) == IF a >= b THEN a ELSE b

BridgeDecisionReleasingAlways(mock_results) ==
    LET approved_count == Len(ApprovedResults(mock_results))
        total_count == Len(mock_results)
        approval_rate == Frac(approved_count, total_count)
        avg_confidence == Frac(SumConfidence(ApprovedResults(mock_results)),
                               100 * Max(approved_count, 1))
        final_approved == /\ FracGE(approval_rate, Frac(66, 100))
                          /\ FracGE(avg_confidence, Frac(7, 10))
    IN  [approved |-> final_approved,
         approval_rate |-> approval_rate,
         confidence_score |-> avg_confidence,
         agent_count |-> total_count,
         results |-> mock_results,
         payment_released |-> TRUE]

\* the consensus fields _simulate_verification_process writes into the request
BridgeDecision(mock_results) ==
    LET approved_count == Len(ApprovedResults(mock_results))
        total_count == Len(mock_results)
        approval_rate == Frac(approved_count, total_count)
        avg_confidence == Frac(SumConfidence(ApprovedResults(mock_results)),
                               100 * Max(approved_count, 1))
        final_approved == /\ FracGE(approval_rate, Frac(66, 100))
                          /\ FracGE(avg_confidence, Frac(7, 10))
    IN  [approved |-> final_approved,
         approval_rate |-> approval_rate,
         confidence_score |-> avg_confidence,
         agent_count |-> total_count,
         results |-> mock_results,
         payment_released |-> final_approved]

\* submit_verification_request(request)
SubmitVerificationRequest(request_id) ==
    /\ program = "bridge"
    /\ sim_tasks[request_id] < MaxSimTasks
    /\ verification_requests' =
          [r \in DOMAIN verification_requests \cup {request_id} |->
              IF r = request_id
              THEN [status |-> "pending", agent_responses |-> << >>,
                    completed |-> FALSE, decision |-> NoConsensus]
              ELSE verification_requests[r]]
    /\ sim_tasks' = [sim_tasks EXCEPT ![request_id] = @ + 1]
    /\ ignored' = Handled("request_id", TRUE)
    /\ UNCHANGED <<program, agentverse_vars, verifier_vars, registry_vars>>

\* the fields the except clause of _simulate_verification_process writes
SimulationError == [approved |-> FALSE, error |-> "division by zero"]

SimulatedLeftPending(request_data, mock_results) ==
    [request_data EXCEPT
        !.agent_responses = @ \o mock_results,
        !.decision = BridgeDecision(mock_results)]

\* what _simulate_verification_process makes of the request's record: the
\* responses appended one by one, then request_data.update(...).  The one
\* statement of the try block that can raise is the division by total_count,
\* when no agent is on record; the except clause then marks the request
\* completed and not approved, with the error and without the other fields.
Simulated(request_data, mock_results) ==
    IF Len(mock_results) = 0
    THEN [request_data EXCEPT
            !.completed = TRUE,
            !.decision = SimulationError]
    ELSE [request_data EXCEPT
            !.agent_responses = @ \o mock_results,
            !.completed = TRUE,
            !.decision = BridgeDecision(mock_results)]

\* _simulate_verification_process(request_id), once its sleep is over
SimulateVerificationProcess(request_id, draws) ==
    /\ program = "bridge"
    /\ sim_tasks[request_id] > 0
    /\ LET request_data == verification_requests[request_id]
           mock_results == BridgeMockResults(request_id, draws)
       IN  verification_requests' =
              [verification_requests EXCEPT ![request_id] =
                  Simulated(request_data, mock_results)]
    /\ sim_tasks' = [sim_tasks EXCEPT ![request_id] = @ - 1]
    /\ ignored' = Handled("request_id", TRUE)
    /\ UNCHANGED <<program, agentverse_vars, verifier_vars, registry_vars>>

\* get_verification_status(request_id) for a request on record: the fields of
\* the VerificationStatusResponse the consumers read
GetVerificationStatus(requests, request_id) ==
    LET request_data == requests[request_id]
    IN  [request_id |-> request_id,
         status |-> IF request_data.completed THEN "completed" ELSE "pending",
         completed |-> request_data.completed,
         decision |-> request_data.decision]

-----------------------------------------------------------------------------
(* src/metta/knowledge_graph.py *)

Min(a, b) == IF a <= b THEN a ELSE b

\* The five criteria of a rule of initialize_knowledge_base, by position; every
\* rule (code, design, content quality) weighs them 0.3, 0.25, 0.2, 0.15, 0.1.
Criteria == 1..5
CriterionWeight == << 30, 25, 20, 15, 10 >>

\* What np.random.uniform(0.6, 0.95) may give for the five criteria of one
\* assessment, in hundredths
ScoreDraws ==
    { << 60, 60, 60, 60, 60 >>, << 95, 60, 60, 60, 60 >>, << 95, 95, 95, 95, 95 >> }

\* categories of submitted work; "data entry" is not in specialty_mapping
Categories == {"web development", "content writing", "data entry"}

\* The work data an assessment reads: the number of deliverables and whether the
\* description is longer than 100 characters.
WorkIds == {"work_1"}
WorkInputs ==
    [work_id : WorkIds, category : Categories,
     deliverables : {0, 1, 2}, long_description : {FALSE}]

\* evaluate_criterion(criterion, deliverables, work_data), base_score drawn
EvaluateCriterion(base_score, work) ==
    Min(100, base_score + (IF work.deliverables > 0 THEN 5 ELSE 0)
                        + (IF work.long_description THEN 2 ELSE 0))

RECURSIVE WeightedSum(_, _)
WeightedSum(scores, cs) ==
    IF cs = {} THEN 0
    ELSE LET c == CHOOSE x \in cs : TRUE
         IN  scores[c] * CriterionWeight[c] + WeightedSum(scores, cs \ {c})

\* reason_about_work(work_data): scores in hundredths, overall_score and
\* confidence as fractions of 1
ReasonAboutWork(work, draw) ==
    LET scores == [c \in Criteria |-> EvaluateCriterion(draw[c], work)]
    IN  [overall_score |-> Frac(WeightedSum(scores, Criteria), 100 * 100),
         category_scores |-> [c \in Criteria |-> Frac(scores[c], 100)],
         recommendations |-> { <<c, scores[c]>> : c \in { x \in Criteria : scores[x] < 70 } },
         confidence |-> Frac(Min(100, work.deliverables * 30 + 40), 100)]

\* an approval that looks at the overall score alone
IsApprovedByScoreAlone(assessment) ==
    FracGE(assessment.overall_score, Frac(75, 100))

\* WorkQualityAssessment.is_approved(threshold = 0.75)
IsApproved(assessment) ==
    /\ FracGE(assessment.overall_score, Frac(75, 100))
    /\ FracGE(assessment.confidence, Frac(6, 10))

\* WorkQualityAssessment.to_dict()
ToDict(assessment) ==
    [overall_score |-> assessment.overall_score,
     category_scores |-> assessment.category_scores,
     recommendations |-> assessment.recommendations,
     confidence |-> assessment.confidence,
     approved |-> IsApproved(assessment)]

-----------------------------------------------------------------------------
(* src/agents/multi_agent_verifier.py: discovery *)

\* mock_agents of search_agentverse_agents: rating in tenths, success_rate and
\* cost_per_verification in hundredths, response_time_avg in seconds.  Every
\* one of them is available, so every category finds at least one agent.
MockAgents ==
    << [agent_id |-> "agent_code_master_001", specialty |-> "code_review",
        rating |-> 48, total_verifications |-> 1250, success_rate |-> 94,
        response_time_avg |-> 120, cost_per_verification |-> 5, available |-> TRUE],
       [agent_id |-> "agent_design_guru_002", specialty |-> "design_assessment",
        rating |-> 49, total_verifications |-> 890, success_rate |-> 96,
        response_time_avg |-> 180, cost_per_verification |-> 8, available |-> TRUE],
       [agent_id |-> "agent_security_hawk_003", specialty |-> "security_audit",
        rating |-> 47, total_verifications |-> 2100, success_rate |-> 92,
        response_time_avg |-> 300, cost_per_verification |-> 12, available |-> TRUE],
       [agent_id |-> "agent_ux_wizard_004", specialty |-> "ux_evaluation",
        rating |-> 46, total_verifications |-> 750, success_rate |-> 89,
        response_time_avg |-> 240, cost_per_verification |-> 7, available |-> TRUE],
       [agent_id |-> "agent_content_sage_005", specialty |-> "content_evaluation",
        rating |-> 45, total_verifications |-> 650, success_rate |-> 91,
        response_time_avg |-> 150, cost_per_verification |-> 4, available |-> TRUE],
       [agent_id |-> "agent_perf_optimizer_006", specialty |-> "performance_analysis",
        rating |-> 44, total_verifications |-> 980, success_rate |-> 88,
        response_time_avg |-> 200, cost_per_verification |-> 6, available |-> TRUE] >>

\* specialty_mapping.get(category.lower(), [CODE_REVIEW]) of discover_best_agents
RequiredSpecialties(category) ==
    CASE category = "web development" ->
            {"code_review", "security_audit", "performance_analysis"}
      [] category = "mobile development" ->
            {"code_review", "ux_evaluation", "performance_analysis"}
      [] category = "ui/ux design" -> {"design_assessment", "ux_evaluation"}
      [] category = "content writing" -> {"content_evaluation"}
      [] category = "blockchain" -> {"code_review", "security_audit"}
      [] category = "ai/ml" -> {"code_review", "performance_analysis"}
      [] OTHER -> {"code_review"}

\* search_agentverse_agents(specialties)
SearchAgentverseAgents(specialties) ==
    SelectSeq(MockAgents, LAMBDA a : a.specialty \in specialties /\ a.available)

\* calculate_score(agent) of rank_agents, times 60000
CalculateScore(agent) ==
      360 * agent.rating
    + 150 * agent.success_rate
    + 12 * Min(agent.total_verifications, 1000)
    + 15 * Max(0, 600 - agent.response_time_avg)
    + 300 * Max(0, 20 - agent.cost_per_verification)

\* insertion of agent a behind every agent whose score is not lower (list.sort
\* with reverse=True is stable)
RECURSIVE InsertByScore(_, _)
InsertByScore(sorted, a) ==
    IF sorted = << >> THEN << a >>
    ELSE IF CalculateScore(Head(sorted)) >= CalculateScore(a)
         THEN << Head(sorted) >> \o InsertByScore(Tail(sorted), a)
         ELSE << a >> \o sorted

\* rank_agents(agents, category)
RECURSIVE RankAgents(_)
RankAgents(agents) ==
    IF agents = << >> THEN << >>
    ELSE InsertByScore(RankAgents(SubSeq(agents, 1, Len(agents) - 1)),
                       agents[Len(agents)])

\* discover_best_agents(category, num_agents)
DiscoverBestAgents(category, num_agents) ==
    LET ranked_agents == RankAgents(
            SearchAgentverseAgents(RequiredSpecialties(category)))
    IN  SubSeq(ranked_agents, 1, Min(num_agents, Len(ranked_agents)))


-----------------------------------------------------------------------------
(* src/protocols/asi_one_chat.py: the conversations of one ASIOneChatProtocol *)

\* send_message putting the message at the head of the log
SendMessageAtHead(convs, conversation_id, message) ==
    IF conversation_id \in DOMAIN convs
    THEN [convs EXCEPT ![conversation_id].messages = << message >> \o @]
    ELSE convs

\* create_message followed by send_message: the message is appended to its
\* conversation when the conversation exists
SendMessage(convs, conversation_id, message) ==
    IF conversation_id \in DOMAIN convs
    THEN [convs EXCEPT ![conversation_id].messages = Append(@, message)]
    ELSE convs

\* start_conversation(human_id, context)
StartConversation(convs, conversation_id, human_id, context) ==
    LET created == [c \in DOMAIN convs \cup {conversation_id} |->
                       IF c = conversation_id
                       THEN [participants |-> << "agent", human_id >>,
                             context |-> context,
                             messages |-> << >>,
                             status |-> "active"]
                       ELSE convs[c]]
    IN  SendMessage(created, conversation_id, [type |-> "system_update"])

\* ASIOneChatProtocol.handle_work_submission(work_data, client_id)
ChatHandleWorkSubmission(convs, conversation_id, work_data, client_id) ==
    SendMessage(
        StartConversation(convs, conversation_id, client_id,
                          [type |-> "work_verification",
                           work_id |-> work_data.work_id,
                           category |-> work_data.category]),
        conversation_id,
        [type |-> "work_submission"])

\* trigger_agent_approval_payment(conversation_id, assessment)
TriggerAgentApprovalPayment(convs, conversation_id) ==
    IF conversation_id \notin DOMAIN convs
    THEN convs
    ELSE SendMessage(convs, conversation_id,
                     [type |-> "payment_trigger", amount_percentage |-> 20,
                      trigger |-> "agent_approval"])

\* handle_agent_assessment(assessment, conversation_id); approved is
\* assessment.get("approved", False)
ChatHandleAgentAssessment(convs, conversation_id, approved) ==
    IF conversation_id \notin DOMAIN convs
    THEN convs
    ELSE LET assessed ==
                SendMessage(convs, conversation_id,
                    [type |-> "agent_assessment",
                     agent_decision |-> IF approved THEN "approved"
                                                    ELSE "needs_revision"])
         IN  IF approved
             THEN TriggerAgentApprovalPayment(assessed, conversation_id)
             ELSE assessed

\* trigger_full_payment(conversation_id, feedback)
TriggerFullPayment(convs, conversation_id) ==
    IF conversation_id \notin DOMAIN convs
    THEN convs
    ELSE SendMessage(convs, conversation_id,
                     [type |-> "approval_notification", amount_percentage |-> 80,
                      trigger |-> "client_approval"])

\* handle_revision_request(conversation_id, feedback)
HandleRevisionRequest(convs, conversation_id) ==
    IF conversation_id \notin DOMAIN convs
    THEN convs
    ELSE SendMessage(convs, conversation_id, [type |-> "revision_request"])

\* handle_client_feedback(feedback, conversation_id); approved is
\* feedback.get("approved", False)
ChatHandleClientFeedback(convs, conversation_id, approved) ==
    IF conversation_id \notin DOMAIN convs
    THEN convs
    ELSE IF approved
         THEN TriggerFullPayment(convs, conversation_id)
         ELSE HandleRevisionRequest(convs, conversation_id)

\* end_conversation(conversation_id, reason)
ChatEndConversation(convs, conversation_id) ==
    IF conversation_id \in DOMAIN convs
    THEN [convs EXCEPT ![conversation_id].status = "ended"]
    ELSE convs

-----------------------------------------------------------------------------
(* src/agents/multi_agent_verifier.py: verification *)

\* the outcome of an assessment that raised, and what a call that raised returns
Raised == << >>
Failure == [failed |-> TRUE]

\* What one assessment of the work comes to: it raises, or it draws its scores
AssessmentOutcomes == {Raised} \cup ScoreDraws

\* matches_specialty(specialty, category)
MatchesSpecialty(specialty, category) ==
    CASE specialty = "code_review" ->
            category \in {"web development", "mobile development", "blockchain", "ai/ml"}
      [] specialty = "design_assessment" ->
            category \in {"ui/ux design", "graphic design"}
      [] specialty = "content_evaluation" ->
            category \in {"content writing", "copywriting"}
      [] specialty = "security_audit" ->
            category \in {"web development", "blockchain", "mobile development"}
      [] specialty = "performance_analysis" ->
            category \in {"web development", "mobile development", "ai/ml"}
      [] specialty = "ux_evaluation" ->
            category \in {"ui/ux design", "mobile development", "web development"}
      [] OTHER -> FALSE

\* a fraction whose denominator divides 100, in hundredths
Hundredths(f) == (f.num * 100) \div f.den

\* verify_with_single_agent(agent, context), the scores of its assessment drawn
VerifyWithSingleAgent(agent, work_data, draw) ==
    LET metta_assessment == ReasonAboutWork(work_data, draw)
        specialty_bonus == IF MatchesSpecialty(agent.specialty, work_data.category)
                           THEN 5 ELSE 0
    IN  [agent_id |-> agent.agent_id,
         specialty |-> agent.specialty,
         assessment |-> ToDict(metta_assessment),
         confidence |-> Min(100, Hundredths(metta_assessment.confidence)
                                 + specialty_bonus)]

\* coordinate_agent_verifications(agents, context): the results of the agents
\* whose invocation did not raise, in the agents' order
RECURSIVE CoordinateAgentVerifications(_, _, _, _)
CoordinateAgentVerifications(agents, work_data, outcomes, i) ==
    IF i > Len(agents) THEN << >>
    ELSE (IF outcomes[i] = Raised
          THEN << >>
          ELSE << VerifyWithSingleAgent(agents[i], work_data, outcomes[i]) >>)
         \o CoordinateAgentVerifications(agents, work_data, outcomes, i + 1)

RECURSIVE SumWeights(_, _)
SumWeights(agent_results, category) ==
    IF agent_results = << >> THEN 0
    ELSE LET result == Head(agent_results)
             specialty_weight == IF MatchesSpecialty(result.specialty, category)
                                 THEN 12 ELSE 10
         IN  result.confidence * specialty_weight
             + SumWeights(Tail(agent_results), category)

\* the sum over the results of score * weight for criterion c
RECURSIVE SumWeightedScores(_, _, _)
SumWeightedScores(agent_results, category, c) ==
    IF agent_results = << >> THEN 0
    ELSE LET result == Head(agent_results)
             specialty_weight == IF MatchesSpecialty(result.specialty, category)
                                 THEN 12 ELSE 10
         IN  Hundredths(result.assessment.category_scores[c])
                * result.confidence * specialty_weight
             + SumWeightedScores(Tail(agent_results), category, c)

RECURSIVE SumResultConfidence(_)
SumResultConfidence(agent_results) ==
    IF agent_results = << >> THEN 0
    ELSE Head(agent_results).confidence + SumResultConfidence(Tail(agent_results))

RECURSIVE SumOfCriteria(_, _, _)
SumOfCriteria(agent_results, category, cs) ==
    IF cs = {} THEN 0
    ELSE LET c == CHOOSE x \in cs : TRUE
         IN  SumWeightedScores(agent_results, category, c)
             + SumOfCriteria(agent_results, category, cs \ {c})

\* an empty result set aggregated to a rejection without scores, in place of the
\* fallback assessment
AggregateEmptyAsRejection(agent_results, work_data, fallback) ==
    [overall_score |-> Frac(0, 1), category_scores |-> << >>,
     recommendations |-> {}, confidence |-> Frac(0, 1)]

\* the assessment of the work aggregate_verification_results falls back to when
\* it is given no result: assess_work_quality(context), which may raise
FallbackAssessment(agent_results, work_data, fallback) ==
    IF fallback = Raised THEN Failure ELSE ReasonAboutWork(work_data, fallback)

\* aggregate_verification_results(agent_results, context)
AggregateVerificationResults(agent_results, work_data, fallback) ==
    IF agent_results = << >>
    THEN FallbackAssessment(agent_results, work_data, fallback)
    ELSE LET category == work_data.category
             total_weight == SumWeights(agent_results, category)
             weighted_scores ==
                [c \in Criteria |->
                    IF total_weight > 0
                    THEN Frac(SumWeightedScores(agent_results, category, c),
                              100 * total_weight)
                    ELSE Frac(0, 1)]
             overall_score ==
                IF total_weight > 0
                THEN Frac(SumOfCriteria(agent_results, category, Criteria),
                          Cardinality(Criteria) * 100 * total_weight)
                ELSE Frac(0, 1)
         IN  [overall_score |-> overall_score,
              category_scores |-> weighted_scores,
              recommendations |->
                 UNION { agent_results[i].assessment.recommendations :
                            i \in DOMAIN agent_results },
              confidence |-> Frac(SumResultConfidence(agent_results),
                                  100 * Len(agent_results))]

\* The verifier's state as one value: active_tasks, verification_results and
\* the conversations of its asi_one_chat.
VerifierState(tasks, results, convs) ==
    [tasks |-> tasks, results |-> results, convs |-> convs]

\* a dict with key k set to v
Put(dict, k, v) == [x \in DOMAIN dict \cup {k} |-> IF x = k THEN v ELSE dict[x]]

\* a task whose status is left as it was
StatusKept(task, status) == task

\* task.status = status
SetStatus(task, status) == [task EXCEPT !.status = status]

\* verify_work(work_data, client_id): the states the call passes through, one
\* for each of its writes to active_tasks, verification_results and the
\* conversations.  task_id and conversation_id are the fresh uuids it draws,
\* outcomes what each agent's invocation comes to, fallback what the fallback
\* assessment comes to.
VerifyWorkSteps(st, task_id, conversation_id, work_data, client_id, outcomes, fallback) ==
    LET category == work_data.category
        task == [work_data |-> work_data, category |-> category,
                 assigned_agents |-> << >>, status |-> "discovering_agents"]
        created == VerifierState(Put(st.tasks, task_id, task), st.results, st.convs)
        best_agents == DiscoverBestAgents(category, 3)
        failed == SetStatus(task, "failed")
    IN  IF best_agents = << >>
        THEN << created,
                VerifierState(Put(st.tasks, task_id, failed), st.results, st.convs) >>
        ELSE
        LET assigned == [task EXCEPT
                            !.assigned_agents =
                                [i \in DOMAIN best_agents |-> best_agents[i].agent_id]]
            agents_assigned == SetStatus(assigned, "agents_assigned")
            convs == ChatHandleWorkSubmission(st.convs, conversation_id,
                                              work_data, client_id)
            verifying == SetStatus(agents_assigned, "verifying")
            agent_results ==
                CoordinateAgentVerifications(best_agents, work_data, outcomes, 1)
            final_assessment ==
                AggregateVerificationResults(agent_results, work_data, fallback)
            started ==
                << created,
                   VerifierState(Put(st.tasks, task_id, agents_assigned),
                                 st.results, st.convs),
                   VerifierState(Put(st.tasks, task_id, agents_assigned),
                                 st.results, convs),
                   VerifierState(Put(st.tasks, task_id, verifying), st.results, convs) >>
        IN  IF final_assessment = Failure
            THEN Append(started,
                    VerifierState(
                        Put(st.tasks, task_id, SetStatus(verifying, "failed")),
                        st.results, convs))
            ELSE LET assessed == ChatHandleAgentAssessment(convs, conversation_id,
                                                           IsApproved(final_assessment))
                     results == Put(st.results, task_id,
                                    [task |-> verifying,
                                     agents |-> best_agents,
                                     agent_results |-> agent_results,
                                     final_assessment |-> ToDict(final_assessment),
                                     conversation_id |-> conversation_id])
                 IN  started \o
                     << VerifierState(Put(st.tasks, task_id, verifying),
                                      st.results, assessed),
                        VerifierState(Put(st.tasks, task_id, verifying),
                                      results, assessed),
                        VerifierState(
                            Put(st.tasks, task_id, SetStatus(verifying, "completed")),
                            results, assessed) >>

\* verify_work(work_data, client_id): the state the call leaves
VerifyWork(st, task_id, conversation_id, work_data, client_id, outcomes, fallback) ==
    LET steps == VerifyWorkSteps(st, task_id, conversation_id, work_data, client_id,
                                 outcomes, fallback)
    IN  steps[Len(steps)]

ClientIds == {"client_1"}
TaskIds == {"task_1"}
ConversationIds == {"conv_1"}
\* conversation ids the chat operations are called with: "conv_2" is never started
ChatIds == ConversationIds \cup {"conv_2"}

\* the agents verify_work picks for a category
BestAgents(category) == DiscoverBestAgents(category, 3)

\* handle_work_submission of verification_agent.py: a WorkSubmission message.
\* What follows verify_work in the handler changes none of the verifier's state:
\* the module's trigger_agent_approval_payment builds an AgentApprovalPayment
\* without its required fields, catches the error and returns False.
HandleWorkSubmission(task_id, conversation_id, work_data, client_id, outcomes, fallback) ==
    /\ program = "verifier"
    /\ task_id \notin DOMAIN active_tasks
    /\ conversation_id \notin DOMAIN conversations
    /\ LET st == VerifyWork(
                    VerifierState(active_tasks, verification_results, conversations),
                    task_id, conversation_id, work_data, client_id,
                    outcomes, fallback)
       IN  /\ active_tasks' = st.tasks
           /\ verification_results' = st.results
           /\ conversations' = st.convs
    /\ ignored' = Handled("work_id", TRUE)
    /\ UNCHANGED <<program, agentverse_vars, bridge_vars, registry_vars>>

\* messages a call may still append to a conversation
Room(conversation_id) ==
    IF conversation_id \in DOMAIN conversations
    THEN MaxMessages - Len(conversations[conversation_id].messages)
    ELSE MaxMessages

\* ASIOneChatProtocol.handle_agent_assessment(assessment, conversation_id)
HandleAgentAssessment(conversation_id, approved) ==
    /\ program = "verifier"
    /\ Room(conversation_id) >= 2
    /\ conversations' = ChatHandleAgentAssessment(conversations, conversation_id, approved)
    /\ ignored' = Handled("conversation_id", conversation_id \in DOMAIN conversations)
    /\ UNCHANGED <<program, active_tasks, verification_results,
                   agentverse_vars, bridge_vars, registry_vars>>

\* ASIOneChatProtocol.handle_client_feedback(feedback, conversation_id)
HandleClientFeedback(conversation_id, approved) ==
    /\ program = "verifier"
    /\ Room(conversation_id) >= 1
    /\ conversations' = ChatHandleClientFeedback(conversations, conversation_id, approved)
    /\ ignored' = Handled("conversation_id", conversation_id \in DOMAIN conversations)
    /\ UNCHANGED <<program, active_tasks, verification_results,
                   agentverse_vars, bridge_vars, registry_vars>>

\* ASIOneChatProtocol.end_conversation(conversation_id)
EndConversation(conversation_id) ==
    /\ program = "verifier"
    /\ conversations' = ChatEndConversation(conversations, conversation_id)
    /\ ignored' = Handled("conversation_id", conversation_id \in DOMAIN conversations)
    /\ UNCHANGED <<program, active_tasks, verification_results,
                   agentverse_vars, bridge_vars, registry_vars>>

-----------------------------------------------------------------------------
(* src/asi-agents/agent_coordinator.py *)

\* No entry of a dict, and the None a search returns
None == "<none>"

\* index of the agent with this address in registered_agents (a dict, kept in
\* insertion order as a sequence), or 0
RECURSIVE IndexOf(_, _, _)
IndexOf(agents, address, i) ==
    IF i > Len(agents) THEN 0
    ELSE IF agents[i].address = address THEN i
    ELSE IndexOf(agents, address, i + 1)

SortsBeforeBySuccessRate(a, b) ==
    \/ a.successful_requests * Max(b.total_requests, 1)
         > b.successful_requests * Max(a.total_requests, 1)
    \/ /\ a.successful_requests * Max(b.total_requests, 1)
            = b.successful_requests * Max(a.total_requests, 1)
       /\ a.load < b.load

\* x["load"], -x["success_rate"] of a before that of b
SortsBefore(a, b) ==
    \/ a.load < b.load
    \/ /\ a.load = b.load
       /\ a.successful_requests * Max(b.total_requests, 1)
            > b.successful_requests * Max(a.total_requests, 1)

FindSuitableAgentWhateverStatus(agents, request_type) ==
    LET suitable == { i \in DOMAIN agents :
                        /\ request_type \in agents[i].capabilities
                        /\ agents[i].load < 80 }
        best == { i \in suitable :
                    \A j \in suitable :
                        /\ ~SortsBefore(agents[j], agents[i])
                        /\ (SortsBefore(agents[i], agents[j]) \/ i <= j) }
    IN  IF suitable = {} THEN None
        ELSE agents[CHOOSE i \in best : TRUE].address

\* find_suitable_agent(request_type, data): the first, in dict order, of the
\* suitable agents no other suitable agent sorts before
FindSuitableAgent(agents, request_type) ==
    LET suitable == { i \in DOMAIN agents :
                        /\ agents[i].status = "active"
                        /\ request_type \in agents[i].capabilities
                        /\ agents[i].load < 80 }
        best == { i \in suitable :
                    \A j \in suitable :
                        /\ ~SortsBefore(agents[j], agents[i])
                        /\ (SortsBefore(agents[i], agents[j]) \/ i <= j) }
    IN  IF suitable = {} THEN None
        ELSE agents[CHOOSE i \in best : TRUE].address

AnyRegistrationValidates(msg) == TRUE

\* class AgentRegistration(Model): agent_address and capabilities are fields
\* without a default, so a message lacking one does not validate
ValidatesAsAgentRegistration(msg) ==
    {"agent_address", "capabilities"} \subseteq DOMAIN msg

\* a registration that starts an agent already on record anew but for its
\* successful_requests
RegisterKeepingSuccesses(agents, msg) ==
    LET i == IndexOf(agents, msg.agent_address, 1)
        entry == [address |-> msg.agent_address,
                  capabilities |-> msg.capabilities,
                  status |-> "active", load |-> 0,
                  total_requests |-> 0,
                  successful_requests |->
                      IF i = 0 THEN 0 ELSE agents[i].successful_requests]
    IN  IF i = 0 THEN Append(agents, entry)
                 ELSE [agents EXCEPT ![i] = entry]

\* the registry after registered_agents[msg.agent_address] = {...}
Register(agents, msg) ==
    LET field(f) == IF f \in DOMAIN msg THEN msg[f] ELSE Missing
        entry == [address |-> field("agent_address"),
                  capabilities |-> field("capabilities"),
                  status |-> "active", load |-> 0,
                  total_requests |-> 0, successful_requests |-> 0]
        i == IndexOf(agents, entry.address, 1)
    IN  IF i = 0 THEN Append(agents, entry)
                 ELSE [agents EXCEPT ![i] = entry]

\* handle_agent_registration: an AgentRegistration message; the handler is run
\* only for a message that validates
HandleAgentRegistration(msg) ==
    /\ program = "registry"
    /\ warned' = NoWarnings
    /\ registered_agents' =
          IF ValidatesAsAgentRegistration(msg)
          THEN Register(registered_agents, msg)
          ELSE registered_agents
    /\ sent' = << >>
    /\ ignored' = IF ValidatesAsAgentRegistration(msg) THEN "" ELSE "AgentRegistration"
    /\ UNCHANGED <<program, active_requests, responding,
                   agentverse_vars, bridge_vars, verifier_vars>>

\* an agent's load after assign_request_to_agent added 0.1 to it.  Loads are
\* doubles, written here in hundredths rounded down: 0.7 + 0.1 is
\* 0.7999999999999999, and adding 0.1 to that gives 0.8999999999999999,
\* 0.9999999999999999 and so on; every other sum met here is the double nearest
\* to the decimal sum or, as 0.30000000000000004, just above it.
AddTenth(load) == IF load = 70 THEN 79 ELSE load + 10

\* handle_work_request: a WorkRequest message, with assign_request_to_agent and
\* handle_no_agent_available
RouteWorkRequest(sender, msg) ==
    /\ program = "registry"
    /\ warned' = NoWarnings
    /\ LET stored == Put(active_requests, msg.request_id,
                         [sender |-> sender, request_type |-> msg.request_type,
                          status |-> "pending", assigned_agent |-> None])
           suitable_agent == FindSuitableAgent(registered_agents, msg.request_type)
           i == IndexOf(registered_agents, suitable_agent, 1)
       IN  IF suitable_agent # None
           THEN /\ active_requests' =
                      [stored EXCEPT ![msg.request_id].assigned_agent = suitable_agent,
                                     ![msg.request_id].status = "assigned"]
                /\ registered_agents' =
                      [registered_agents EXCEPT ![i].load = AddTenth(@)]
                /\ sent' = << [to |-> suitable_agent, type |-> "WorkRequest",
                               request_id |-> msg.request_id] >>
           ELSE /\ active_requests' =
                      [r \in DOMAIN stored \ {msg.request_id} |-> stored[r]]
                /\ registered_agents' = registered_agents
                /\ sent' = << [to |-> sender, type |-> "WorkResponse",
                               request_id |-> msg.request_id,
                               agent_address |-> "coordinator",
                               success |-> FALSE] >>
    /\ ignored' = Handled("request_id", TRUE)
    /\ UNCHANGED <<program, responding, agentverse_vars, bridge_vars, verifier_vars>>

\* handle_work_request where agents report heartbeats: an agent's load grows by
\* 0.1 with every request assigned to it, and the model follows it up to
\* MaxAssignments such steps.
HandleWorkRequest(sender, msg) ==
    /\ LET suitable_agent == FindSuitableAgent(registered_agents, msg.request_type)
           i == IndexOf(registered_agents, suitable_agent, 1)
       IN  suitable_agent # None => registered_agents[i].load < 10 * MaxAssignments
    /\ RouteWorkRequest(sender, msg)

\* an agent's counters after a response that also gives back the 0.1 of load
\* its assignment took
RespondedReleasingLoad(agents, msg) ==
    LET i == IndexOf(agents, msg.agent_address, 1)
    IN  IF i = 0 THEN agents
        ELSE [agents EXCEPT
                ![i].total_requests = @ + 1,
                ![i].successful_requests = IF msg.success THEN @ + 1 ELSE @,
                ![i].load = IF @ >= 10 THEN @ - 10 ELSE 0]

\* the registry after handle_work_response counted a response for the agent
\* msg.agent_address names, if that agent is registered
Responded(agents, msg) ==
    LET i == IndexOf(agents, msg.agent_address, 1)
    IN  IF i = 0 THEN agents
        ELSE [agents EXCEPT
                ![i].total_requests = @ + 1,
                ![i].successful_requests = IF msg.success THEN @ + 1 ELSE @]

\* handle_work_response: a WorkResponse message
HandleWorkResponse(msg) ==
    /\ program = "registry"
    /\ warned' = NoWarnings
    /\ IF msg.request_id \in DOMAIN active_requests
       THEN LET request_info == active_requests[msg.request_id]
                i == IndexOf(registered_agents, msg.agent_address, 1)
            IN  /\ i # 0 => registered_agents[i].total_requests < MaxResponses
                /\ registered_agents' = Responded(registered_agents, msg)
                /\ sent' = << [to |-> request_info.sender, type |-> "WorkResponse",
                               request_id |-> msg.request_id,
                               agent_address |-> msg.agent_address,
                               success |-> msg.success] >>
                /\ active_requests' =
                      [r \in DOMAIN active_requests \ {msg.request_id} |->
                          active_requests[r]]
       ELSE /\ sent' = << >>
            /\ UNCHANGED <<registered_agents, active_requests>>
    /\ ignored' = Handled("request_id", msg.request_id \in DOMAIN active_requests)
    /\ UNCHANGED <<program, responding, agentverse_vars, bridge_vars, verifier_vars>>

\* how many calls of handle_work_response are followed through their awaits
MaxHandlers == 2

\* handle_work_response from its start to its first suspension, the
\* await ctx.send(request_info["sender"], msg): a call that finds the request on
\* record writes its status and the agent's counters, hands the response over
\* to be sent and waits for the send to return
BeginWorkResponse(msg) ==
    /\ program = "registry"
    /\ Len(responding) < MaxHandlers
    /\ warned' = NoWarnings
    /\ IF msg.request_id \in DOMAIN active_requests
       THEN LET request_info == active_requests[msg.request_id]
                i == IndexOf(registered_agents, msg.agent_address, 1)
            IN  /\ i # 0 => registered_agents[i].total_requests < MaxResponses
                /\ active_requests' =
                      [active_requests EXCEPT ![msg.request_id].status =
                          IF msg.success THEN "completed" ELSE "failed"]
                /\ registered_agents' = Responded(registered_agents, msg)
                /\ sent' = << [to |-> request_info.sender, type |-> "WorkResponse",
                               request_id |-> msg.request_id,
                               agent_address |-> msg.agent_address,
                               success |-> msg.success] >>
                /\ responding' = Append(responding, [msg |-> msg, at |-> "send"])
       ELSE /\ sent' = << >>
            /\ UNCHANGED <<registered_agents, active_requests, responding>>
    /\ ignored' = Handled("request_id", msg.request_id \in DOMAIN active_requests)
    /\ UNCHANGED <<program, agentverse_vars, bridge_vars, verifier_vars>>

\* handle_work_response from the return of its send to its end:
\* submit_verification_result only logs, and del active_requests[msg.request_id]
\* raises KeyError when the request is no longer on record
ResumeWorkResponse(h) ==
    /\ program = "registry"
    /\ h \in DOMAIN responding
    /\ responding[h].at = "send"
    /\ LET request_id == responding[h].msg.request_id
       IN  IF request_id \in DOMAIN active_requests
           THEN /\ active_requests' =
                      [r \in DOMAIN active_requests \ {request_id} |->
                          active_requests[r]]
                /\ responding' = [responding EXCEPT ![h].at = "done"]
           ELSE /\ active_requests' = active_requests
                /\ responding' = [responding EXCEPT ![h].at = "KeyError"]
    /\ warned' = NoWarnings
    /\ sent' = << >>
    /\ ignored' = ""
    /\ UNCHANGED <<program, registered_agents,
                   agentverse_vars, bridge_vars, verifier_vars>>

HeartbeatOfUnknownRegisters(agents, msg) ==
    LET i == IndexOf(agents, msg.agent_address, 1)
    IN  IF i = 0
        THEN Append(agents, [address |-> msg.agent_address, capabilities |-> {},
                             status |-> msg.status, load |-> msg.load,
                             total_requests |-> 0, successful_requests |-> 0])
        ELSE [agents EXCEPT ![i].status = msg.status, ![i].load = msg.load]

\* the registry after handle_agent_heartbeat: only an agent already in
\* registered_agents has its status and load replaced by the reported ones
Heartbeat(agents, msg) ==
    LET i == IndexOf(agents, msg.agent_address, 1)
    IN  IF i = 0 THEN agents
        ELSE [agents EXCEPT ![i].status = msg.status, ![i].load = msg.load]

\* handle_agent_heartbeat: an AgentHeartbeat message
HandleAgentHeartbeat(msg) ==
    /\ program = "registry"
    /\ warned' = NoWarnings
    /\ registered_agents' = Heartbeat(registered_agents, msg)
    /\ sent' = << >>
    /\ ignored' = Handled("agent_address", IndexOf(registered_agents, msg.agent_address, 1) # 0)
    /\ UNCHANGED <<program, active_requests, responding,
                   agentverse_vars, bridge_vars, verifier_vars>>

MonitorAgentsPruning(stale, old) ==
    /\ program = "registry"
    /\ registered_agents' =
          SelectSeq(registered_agents, LAMBDA a : a.address \notin stale)
    /\ LET stuck_requests == { r \in old : active_requests[r].status = "assigned" }
       IN  /\ warned' = [stuck_requests |-> stuck_requests]
           /\ active_requests' =
                 [r \in DOMAIN active_requests \ stuck_requests |-> active_requests[r]]
    /\ sent' = << >>
    /\ ignored' = ""
    /\ UNCHANGED <<program, responding, agentverse_vars, bridge_vars, verifier_vars>>

\* one sweep of monitor_agents.  The clock is not part of the model: stale are
\* the registered agents whose last_heartbeat the sweep finds more than 300
\* seconds back, old the requests whose start_time it finds more than 600
\* seconds back.
MonitorAgents(stale, old) ==
    /\ program = "registry"
    /\ registered_agents' =
          [i \in DOMAIN registered_agents |->
              IF registered_agents[i].address \in stale
              THEN [registered_agents[i] EXCEPT !.status = "inactive"]
              ELSE registered_agents[i]]
    /\ LET stuck_requests == { r \in old : active_requests[r].status = "assigned" }
       IN  warned' = [stuck_requests |-> stuck_requests]
    /\ sent' = << >>
    /\ ignored' = ""
    /\ UNCHANGED <<program, active_requests, responding,
                   agentverse_vars, bridge_vars, verifier_vars>>

\* the addresses on record
RegisteredAddresses == { registered_agents[i].address : i \in DOMAIN registered_agents }

AgentAddresses == {"agent_a"}
RequestTypes == {"work_verification"}
WorkRequestIds == {1}
Senders == {"client_agent", "client_agent_2"}

\* registrations lacking the agent address or the capabilities
MalformedRegistrations ==
    { [capabilities |-> {"work_verification"}] }
    \cup { [agent_address |-> a] : a \in AgentAddresses }
\* "agent_b" registers for work verification, reports no heartbeat and answers
\* no request
EarlyRegistrations ==
    { [agent_address |-> "agent_b", capabilities |-> {"work_verification"}] }
AgentRegistrations ==
    [agent_address : AgentAddresses, capabilities : {{}, {"work_verification"}}]
    \cup EarlyRegistrations
    \cup MalformedRegistrations
WorkRequests == [request_id : WorkRequestIds, request_type : RequestTypes]
WorkResponses ==
    [request_id : WorkRequestIds, agent_address : AgentAddresses, success : BOOLEAN]
\* AgentHeartbeat.load is any float: the reported loads 0.0, 0.8 and 1.5
HeartbeatLoads == {0, 80, 150}
\* "agent_c" never registers
HeartbeatAddresses == AgentAddresses \cup {"agent_c"}
AgentHeartbeats ==
    [agent_address : HeartbeatAddresses, status : {"active", "inactive"}, load : HeartbeatLoads]

-----------------------------------------------------------------------------

Init ==
    /\ program \in Programs
    /\ active_verifications = << >>
    /\ notified = << >>
    /\ verification_requests = << >>
    /\ sim_tasks = [r \in BridgeRequestIds |-> 0]
    /\ active_tasks = << >>
    /\ verification_results = << >>
    /\ conversations = << >>
    /\ registered_agents = << >>
    /\ active_requests = << >>
    /\ sent = << >>
    /\ warned = NoWarnings
    /\ responding = << >>
    /\ ignored = ""

\* The fallback assessment is made only when no agent returned a result.
FallbackOutcomes(outcomes) ==
    IF \A i \in DOMAIN outcomes : outcomes[i] = Raised
    THEN AssessmentOutcomes ELSE {Raised}

\* the registrations that may arrive: "agent_b" registers before every other
\* agent or not at all
RegistrationsArriving ==
    IF registered_agents = << >>
    THEN AgentRegistrations
    ELSE AgentRegistrations \ EarlyRegistrations

\* A handler that takes only an id not yet on record is offered only such ids.
Next ==
    \/ \E request_id \in RequestIds \ DOMAIN active_verifications,
          discovered \in DiscoveryOutcomes :
          \E draws \in [1..Len(AgentsFor(discovered)) -> SimDraws] :
            HandleVerificationRequest(request_id, discovered, draws)
    \/ \E result \in ResultMessages : HandleAgentResult(result)
    \/ \E request_id \in BridgeRequestIds : SubmitVerificationRequest(request_id)
    \/ \E request_id \in BridgeRequestIds :
          \E draws \in [1..Len(BridgeAgents) -> BridgeDraws] :
            SimulateVerificationProcess(request_id, draws)
    \/ \E task_id \in TaskIds \ DOMAIN active_tasks,
          conversation_id \in ConversationIds \ DOMAIN conversations,
          work_data \in WorkInputs, client_id \in ClientIds :
          \E outcomes \in [1..Len(BestAgents(work_data.category)) -> AssessmentOutcomes] :
            \E fallback \in FallbackOutcomes(outcomes) :
              HandleWorkSubmission(task_id, conversation_id, work_data, client_id,
                                   outcomes, fallback)
    \/ \E conversation_id \in ChatIds, approved \in BOOLEAN :
          HandleAgentAssessment(conversation_id, approved)
    \/ \E conversation_id \in ChatIds, approved \in BOOLEAN :
          HandleClientFeedback(conversation_id, approved)
    \/ \E conversation_id \in ChatIds : EndConversation(conversation_id)
    \/ \E msg \in RegistrationsArriving : HandleAgentRegistration(msg)
    \/ \E sender \in Senders, msg \in WorkRequests : HandleWorkRequest(sender, msg)
    \/ \E msg \in WorkResponses : HandleWorkResponse(msg)
    \/ \E msg \in AgentHeartbeats : HandleAgentHeartbeat(msg)
    \/ \E stale \in SUBSET RegisteredAddresses, old \in SUBSET DOMAIN active_requests :
          MonitorAgents(stale, old)

Spec == Init /\ [][Next]_vars

\* The agent coordinator with its WorkResponse handlers followed through
\* their suspension: a handler waiting for its send to return leaves the event
\* loop to the other handlers.
ConcurrentInit == Init /\ program = "registry"

ConcurrentNext ==
    \/ \E msg \in RegistrationsArriving : HandleAgentRegistration(msg)
    \/ \E sender \in Senders, msg \in WorkRequests : HandleWorkRequest(sender, msg)
    \/ \E msg \in WorkResponses : BeginWorkResponse(msg)
    \/ \E h \in 1..MaxHandlers : ResumeWorkResponse(h)

ConcurrentSpec == ConcurrentInit /\ [][ConcurrentNext]_vars

\* The agent coordinator with every run of assignments followed to its end,
\* the load at which find_suitable_agent passes the agent over; no sweep runs.
AssignmentNext ==
    \/ \E msg \in RegistrationsArriving : HandleAgentRegistration(msg)
    \/ \E sender \in Senders, msg \in WorkRequests : RouteWorkRequest(sender, msg)
    \/ \E msg \in WorkResponses : HandleWorkResponse(msg)
    \/ \E msg \in AgentHeartbeats : HandleAgentHeartbeat(msg)

AssignmentSpec == ConcurrentInit /\ [][AssignmentNext]_vars

\* The bridge runs on an asyncio event loop: a task made by
\* asyncio.create_task(self._simulate_verification_process(request_id)) is run
\* once its 15-second sleep is over.  The message handlers of the other
\* programs run when a message arrives; nothing schedules them.
FairSpec ==
    /\ Spec
    /\ \A request_id \in BridgeRequestIds :
          WF_vars(\E draws \in [1..Len(BridgeAgents) -> BridgeDraws] :
                     SimulateVerificationProcess(request_id, draws))


\* Each program alone: what Spec lets one program do, from the state in which
\* that program starts.
AgentverseNext ==
    \/ \E request_id \in RequestIds \ DOMAIN active_verifications,
          discovered \in DiscoveryOutcomes :
          \E draws \in [1..Len(AgentsFor(discovered)) -> SimDraws] :
            HandleVerificationRequest(request_id, discovered, draws)
    \/ \E result \in ResultMessages : HandleAgentResult(result)

AgentverseInit == Init /\ program = "agentverse"

AgentverseSpec == AgentverseInit /\ [][AgentverseNext]_vars

BridgeNext ==
    \/ \E request_id \in BridgeRequestIds : SubmitVerificationRequest(request_id)
    \/ \E request_id \in BridgeRequestIds :
          \E draws \in [1..Len(BridgeAgents) -> BridgeDraws] :
            SimulateVerificationProcess(request_id, draws)

BridgeInit == Init /\ program = "bridge"

BridgeFairSpec ==
    /\ BridgeInit
    /\ [][BridgeNext]_vars
    /\ \A request_id \in BridgeRequestIds :
          WF_vars(\E draws \in [1..Len(BridgeAgents) -> BridgeDraws] :
                     SimulateVerificationProcess(request_id, draws))

VerifierNext ==
    \/ \E task_id \in TaskIds \ DOMAIN active_tasks,
          conversation_id \in ConversationIds \ DOMAIN conversations,
          work_data \in WorkInputs, client_id \in ClientIds :
          \E outcomes \in [1..Len(BestAgents(work_data.category)) -> AssessmentOutcomes] :
            \E fallback \in FallbackOutcomes(outcomes) :
              HandleWorkSubmission(task_id, conversation_id, work_data, client_id,
                                   outcomes, fallback)
    \/ \E conversation_id \in ChatIds, approved \in BOOLEAN :
          HandleAgentAssessment(conversation_id, approved)
    \/ \E conversation_id \in ChatIds, approved \in BOOLEAN :
          HandleClientFeedback(conversation_id, approved)
    \/ \E conversation_id \in ChatIds : EndConversation(conversation_id)

VerifierInit == Init /\ program = "verifier"

VerifierSpec == VerifierInit /\ [][VerifierNext]_vars

\* the two programs that make a decision out of agents' results
ConsensusInit == Init /\ program \in {"agentverse", "verifier"}

ConsensusNext == AgentverseNext \/ VerifierNext

ConsensusSpec == ConsensusInit /\ [][ConsensusNext]_vars


-----------------------------------------------------------------------------
(* Properties *)

\* every consensus decision the agentverse coordinator holds or has just notified
CoordinatorDecisions ==
    { active_verifications[r].consensus :
        r \in { x \in DOMAIN active_verifications :
                  active_verifications[x].consensus # NoConsensus } }
    \cup { notified[i] : i \in DOMAIN notified }

\* every consensus decision the bridge holds
BridgeDecisions ==
    { verification_requests[r].decision :
        r \in { x \in DOMAIN verification_requests :
                  verification_requests[x].decision # NoConsensus } }

RecordedDecisions == CoordinatorDecisions \cup BridgeDecisions

\* C1: every recorded consensus decision is approved exactly when its approval
\* rate is at least 0.66 and its confidence score is at least 0.70, both bounds
\* included.
C1_ApprovedIffBothThresholds ==
    \A c \in RecordedDecisions :
        c.approved <=> ( /\ c.approval_rate.num * 100 >= 66 * c.approval_rate.den
                         /\ c.confidence_score.num * 100 >= 70 * c.confidence_score.den )

\* C1 witness: a decision approved with its confidence exactly 0.70
C1_Witness ==
    \E c \in CoordinatorDecisions :
        c.approved /\ c.confidence_score = [num |-> 7, den |-> 10]

\* the mean confidence (a fraction of 1) of the results of rs that satisfy keep
RECURSIVE SumOver(_, _)
SumOver(rs, idx) ==
    IF idx = {} THEN 0
    ELSE LET i == CHOOSE x \in idx : TRUE
         IN  rs[i].confidence_score + SumOver(rs, idx \ {i})

MeanConfidence(rs, idx) ==
    IF idx = {} THEN [num |-> 0, den |-> 1]
    ELSE Frac(SumOver(rs, idx), 100 * Cardinality(idx))

ApprovingIndices(rs) == { i \in DOMAIN rs : rs[i].approved }

RECURSIVE SumAgentConfidence(_, _)
SumAgentConfidence(rs, idx) ==
    IF idx = {} THEN 0
    ELSE LET i == CHOOSE x \in idx : TRUE
         IN  rs[i].confidence + SumAgentConfidence(rs, idx \ {i})

ScenarioVotes(rs) ==
    /\ Len(rs) = 3
    /\ \E i, j, k \in 1..3 :
          /\ {i, j, k} = 1..3
          /\ rs[i].approved /\ rs[i].confidence_score = 90
          /\ rs[j].approved /\ rs[j].confidence_score = 80
          /\ ~rs[k].approved /\ rs[k].confidence_score = 10

HasDecision(r) ==
    r \in DOMAIN active_verifications /\ active_verifications[r].consensus # NoConsensus

ExpectedAddresses(verification) ==
    { verification.agents[i].address : i \in DOMAIN verification.agents } \ {Missing}

PaymentTriggers(conversation_id) ==
    IF conversation_id \notin DOMAIN conversations THEN 0
    ELSE Cardinality({ i \in DOMAIN conversations[conversation_id].messages :
                         LET m == conversations[conversation_id].messages[i]
                         IN  m.type = "payment_trigger" })

EmptyAggregations ==
    { t \in DOMAIN verification_results :
        verification_results[t].agent_results = << >> }

TaskConversations(t) ==
    { c \in DOMAIN conversations :
        conversations[c].context.work_id = active_tasks[t].work_data.work_id }

\* agents were assigned to task t and none of them returned a result
AllWorkersFailed(t) ==
    /\ active_tasks[t].assigned_agents # << >>
    /\ t \in DOMAIN verification_results =>
          verification_results[t].agent_results = << >>

FallbackApproves(work_data, draw) ==
    LET bonus == (IF work_data.deliverables > 0 THEN 5 ELSE 0)
                 + (IF work_data.long_description THEN 2 ELSE 0)
        s == [c \in 1..5 |-> IF draw[c] + bonus > 100 THEN 100 ELSE draw[c] + bonus]
    IN  /\ 30 * s[1] + 25 * s[2] + 20 * s[3] + 15 * s[4] + 10 * s[5] >= 7500
        /\ 40 + 30 * work_data.deliverables >= 60

C10_NoWorkerMeansFailed ==
    /\ \A r \in DOMAIN active_verifications :
          active_verifications[r].agents = LocalAgents =>
              /\ active_verifications[r].status = "failed"
              /\ active_verifications[r].results = << >>
              /\ active_verifications[r].consensus = NoConsensus
    /\ \A t \in DOMAIN active_tasks :
          active_tasks[t].assigned_agents = << >> =>
              /\ active_tasks[t].status = "failed"
              /\ t \notin DOMAIN verification_results

\* no registered agent is active, capable of the request type and below load 0.8
NoSuitableAgent(request_type) ==
    \A i \in DOMAIN registered_agents :
        \/ registered_agents[i].status # "active"
        \/ request_type \notin registered_agents[i].capabilities
        \/ registered_agents[i].load >= 80

\* C10 as amended: when its discovery returns no agent, the agentverse
\* coordinator falls back to its three local agents, records the result of each
\* and computes the consensus over the three, which completes the verification;
\* when it finds no suitable agent, the agent coordinator assigns the request to
\* nobody, removes it and answers the sender with a failure response.
C10_NoWorkerFallsBackOrFails ==
    [][ /\ program = "agentverse" =>
            \A request_id \in RequestIds \ DOMAIN active_verifications,
               draws \in [1..Len(LocalAgents) -> SimDraws] :
              HandleVerificationRequest(request_id, << >>, draws) =>
                LET v == active_verifications'[request_id]
                IN  /\ v.agents = LocalAgents
                    /\ Len(v.results) = Len(LocalAgents)
                    /\ \A i \in DOMAIN v.results :
                          /\ v.results[i].agent_address = LocalAgents[i].address
                          /\ v.results[i].approved = draws[i].approved
                          /\ v.results[i].confidence_score = draws[i].confidence_score
                    /\ v.status = "completed"
                    /\ v.consensus # NoConsensus
                    /\ v.consensus.agent_count = Len(LocalAgents)
                    /\ notified' = << v.consensus >>
        /\ program = "registry" =>
            \A sender \in Senders, msg \in WorkRequests :
              (NoSuitableAgent(msg.request_type) /\ HandleWorkRequest(sender, msg)) =>
                /\ msg.request_id \notin DOMAIN active_requests'
                /\ registered_agents' = registered_agents
                /\ sent' = << [to |-> sender, type |-> "WorkResponse",
                               request_id |-> msg.request_id,
                               agent_address |-> "coordinator",
                               success |-> FALSE] >>
      ]_vars

\* C10 witness: a verification the local agents completed after discovery
\* returned no agent
C10_Witness ==
    \E r \in DOMAIN active_verifications :
        /\ active_verifications[r].agents = LocalAgents
        /\ active_verifications[r].status = "completed"
        /\ active_verifications[r].consensus # NoConsensus

-----------------------------------------------------------------------------

\* C11: the load of every registered worker lies in [0, 1], whatever
\* registrations, assignments (each adding 0.1) and heartbeats (each carrying
\* its reported load) have been handled.
C11_LoadWithinUnitInterval ==
    \A i \in DOMAIN registered_agents :
        /\ registered_agents[i].load >= 0
        /\ registered_agents[i].load <= 100

\* C12: a heartbeat whose agent address is not in the registry leaves the
\* registry and the table of active requests as they were: no entry is created
\* for the unknown address, and the handler ends normally.
C12_UnknownHeartbeatChangesNothing ==
    [][\A msg \in AgentHeartbeats :
          ( /\ HandleAgentHeartbeat(msg)
            /\ IndexOf(registered_agents, msg.agent_address, 1) = 0 )
          => /\ registered_agents' = registered_agents
             /\ active_requests' = active_requests]_vars

\* an unknown agent's heartbeat was handled while an agent was registered and a
\* request was assigned
C12_Witness ==
    /\ ignored = "agent_address"
    /\ registered_agents # << >>
    /\ active_requests # << >>

\* the messages of a conversation
Messages(conversation_id) == conversations[conversation_id].messages

\* C13: in every conversation an 80% release made on the client's approval has
\* a 20% release made on the agents' approval before it; client feedback given
\* before that release pays nothing.
C13_FullPaymentAfterPartialPayment ==
    \A c \in DOMAIN conversations :
        \A i \in DOMAIN Messages(c) :
            ( /\ Messages(c)[i].type = "approval_notification"
              /\ Messages(c)[i].amount_percentage = 80 )
            => \E j \in 1..(i - 1) :
                  /\ Messages(c)[j].type = "payment_trigger"
                  /\ Messages(c)[j].amount_percentage = 20

\* C14: once approving client feedback has been handled (its 80% release is in
\* the conversation, after the 20% release), the conversation is ended.
C14_EndedAfterFullPayment ==
    \A c \in DOMAIN conversations :
        (\E i, j \in DOMAIN Messages(c) :
            /\ j < i
            /\ Messages(c)[j].type = "payment_trigger"
            /\ Messages(c)[i].type = "approval_notification")
        => conversations[c].status = "ended"

\* C15: when the decision delivered to a conversation is not approved
\* (agent_decision "needs_revision"), the same handler emits a revision request
\* for that conversation and no 20% payment trigger.
C15_RejectionRequestsRevision ==
    [][\A c \in DOMAIN conversations' :
          LET old == IF c \in DOMAIN conversations THEN Messages(c) ELSE << >>
              new == conversations'[c].messages
              added == { new[i] : i \in (Len(old) + 1)..Len(new) }
          IN  (\E m \in added : /\ m.type = "agent_assessment"
                                /\ m.agent_decision = "needs_revision")
              => /\ \E m \in added : m.type = "revision_request"
                 /\ \A m \in added : m.type # "payment_trigger"]_vars

\* C16: whatever the per-category scores, an aggregation over a non-empty set
\* of results that are all approved with confidence 1.0 gives an approved
\* decision: in the agentverse coordinator, in the bridge and in the multi-agent
\* verifier.
C16_UnanimousFullConfidenceApproved ==
    /\ \A c \in RecordedDecisions :
          ( /\ c.results # << >>
            /\ \A i \in DOMAIN c.results :
                  c.results[i].approved /\ c.results[i].confidence_score = 100 )
          => c.approved
    /\ \A t \in DOMAIN verification_results :
          LET rs == verification_results[t].agent_results
          IN  ( /\ rs # << >>
                /\ \A i \in DOMAIN rs :
                      rs[i].assessment.approved /\ rs[i].confidence = 100 )
              => verification_results[t].final_assessment.approved

\* C17: the sender of a request gets exactly one outcome for it.  A request on
\* record stays on record for its sender until the step that sends this sender
\* its WorkResponse (the failure response when no agent is suitable, else the
\* first agent response): no request that reuses the id displaces it.  A
\* response for an id no longer on record is dropped, not forwarded.
C17_SenderAnsweredOnce ==
    [][/\ \A r \in DOMAIN active_requests :
             \/ /\ r \in DOMAIN active_requests'
                /\ active_requests'[r].sender = active_requests[r].sender
             \/ \E i \in DOMAIN sent' :
                   /\ sent'[i].type = "WorkResponse"
                   /\ sent'[i].to = active_requests[r].sender
                   /\ sent'[i].request_id = r
       /\ \A msg \in WorkResponses :
             ( /\ HandleWorkResponse(msg)
               /\ msg.request_id \notin DOMAIN active_requests )
             => sent' = << >>]_vars

\* C18: every request the bridge's submit accepted is in the end reported
\* completed by the status query; a request just submitted is reported pending
\* with completed false, and the query says "pending" exactly as long as
\* completed is false.
C18_SubmittedEventuallyCompleted ==
    /\ \A r \in BridgeRequestIds :
          (r \in DOMAIN verification_requests)
             ~> ( /\ r \in DOMAIN verification_requests
                  /\ GetVerificationStatus(verification_requests, r).completed )
    /\ [][\A r \in BridgeRequestIds :
            SubmitVerificationRequest(r) =>
               LET status == GetVerificationStatus(verification_requests', r)
               IN  status.status = "pending" /\ ~status.completed]_vars
    /\ [](\A r \in DOMAIN verification_requests :
            LET status == GetVerificationStatus(verification_requests, r)
            IN  /\ status.completed <=> status.status = "completed"
                /\ ~status.completed <=> status.status = "pending")

\* a submitted request whose simulation ran is reported completed
C18_Witness ==
    \E r \in DOMAIN verification_requests :
        /\ GetVerificationStatus(verification_requests, r).completed
        /\ GetVerificationStatus(verification_requests, r).status = "completed"
        /\ Len(verification_requests[r].agent_responses) = Len(BridgeAgents)
        /\ sim_tasks[r] = 0

\* C19: a dispatch always comes to an end: when a worker never responds, the
\* collection times out and a consensus decision is reached on the results that
\* did arrive, if there are any.
C19_PartialResultsReachConsensus ==
    \A r \in RequestIds :
        ( /\ r \in DOMAIN active_verifications
          /\ active_verifications[r].results # << >> )
        ~> ( /\ r \in DOMAIN active_verifications
             /\ active_verifications[r].consensus # NoConsensus )

\* C20: an operation given a conversation id that is not on record (agent
\* assessment, client feedback, payment trigger, revision request) or a request
\* id that is not on record (agent result, work response) changes nothing that
\* is stored, emits no message and ends normally.  (handle_agent_result and
\* handle_work_response leave "request_id" in ignored exactly when given an id
\* not on record.)
C20_UnknownIdChangesNothing ==
    [][/\ program = "verifier" =>
            \A c \in ChatIds \ DOMAIN conversations :
                /\ \A approved \in BOOLEAN :
                      ( \/ HandleAgentAssessment(c, approved)
                        \/ HandleClientFeedback(c, approved) )
                      => UNCHANGED verifier_vars
                /\ TriggerAgentApprovalPayment(conversations, c) = conversations
                /\ TriggerFullPayment(conversations, c) = conversations
                /\ HandleRevisionRequest(conversations, c) = conversations
       /\ (program = "agentverse" /\ ignored' = "request_id") =>
            /\ active_verifications' = active_verifications
            /\ notified' = << >>
       /\ (program = "registry" /\ ignored' = "request_id") =>
            /\ UNCHANGED <<registered_agents, active_requests>>
            /\ sent' = << >>]_vars

\* a call naming an unknown id has just been handled while its program held a
\* record under another id or, for the registry, a registered agent
C20_Witness ==
    \/ /\ program = "verifier"
       /\ ignored = "conversation_id"
       /\ conversations # << >>
    \/ /\ program = "agentverse"
       /\ ignored = "request_id"
       /\ active_verifications # << >>
    \/ /\ program = "registry"
       /\ ignored = "request_id"
       /\ registered_agents # << >>

-----------------------------------------------------------------------------

\* C21: a registration inserts an entry for its address, or replaces the entry
\* the address already has, and touches no other entry; a registration lacking
\* its agent address or its capabilities is rejected and leaves the registry as
\* it was.
C21_RegistrationInsertsOrRejects ==
    [][program = "registry" =>
        \A msg \in AgentRegistrations :
            HandleAgentRegistration(msg) =>
                IF {"agent_address", "capabilities"} \subseteq DOMAIN msg
                THEN LET i == IndexOf(registered_agents, msg.agent_address, 1)
                         j == IF i = 0 THEN Len(registered_agents) + 1 ELSE i
                     IN  /\ Len(registered_agents') =
                               Len(registered_agents) + (IF i = 0 THEN 1 ELSE 0)
                         /\ registered_agents'[j] =
                               [address |-> msg.agent_address,
                                capabilities |-> msg.capabilities,
                                status |-> "active", load |-> 0,
                                total_requests |-> 0, successful_requests |-> 0]
                         /\ \A k \in DOMAIN registered_agents :
                               k # j => registered_agents'[k] = registered_agents[k]
                ELSE /\ registered_agents' = registered_agents
                     /\ active_requests' = active_requests]_vars

\* a registration lacking a field has just been rejected while the registry
\* held an agent with a request assigned to it
C21_Witness ==
    /\ ignored = "AgentRegistration"
    /\ \E i \in DOMAIN registered_agents : registered_agents[i].load > 0

\* the mock marketplace agent with this id
MockAgent(agent_id) ==
    MockAgents[CHOOSE i \in DOMAIN MockAgents : MockAgents[i].agent_id = agent_id]

\* the registry's selection for a work request: the agent a request is sent to
\* is, before the step, active, loaded below 0.8 and capable of the request
\* type; a request no agent is eligible for is sent to nobody
RegistrySelectsEligible ==
    program = "registry" =>
        \A sender \in Senders, msg \in WorkRequests :
            HandleWorkRequest(sender, msg) =>
                /\ \A i \in DOMAIN sent' :
                      sent'[i].type = "WorkRequest" =>
                         LET k == IndexOf(registered_agents, sent'[i].to, 1)
                         IN  /\ k # 0
                             /\ registered_agents[k].status = "active"
                             /\ registered_agents[k].load < 80
                             /\ msg.request_type \in registered_agents[k].capabilities
                /\ (\A k \in DOMAIN registered_agents :
                        \/ registered_agents[k].status # "active"
                        \/ registered_agents[k].load >= 80
                        \/ msg.request_type \notin registered_agents[k].capabilities)
                   => \A i \in DOMAIN sent' : sent'[i].type # "WorkRequest"

\* C22: every worker discovery returns is, when selected, active (available),
\* loaded strictly below 0.8 and of a capability or specialty matching the
\* request; when no worker is all three, none is returned.
C22_DiscoveredWorkersEligible ==
    [][/\ RegistrySelectsEligible
       /\ \A t \in DOMAIN active_tasks' :
             \A i \in DOMAIN active_tasks'[t].assigned_agents :
                LET a == MockAgent(active_tasks'[t].assigned_agents[i])
                IN  /\ a.available
                    /\ a.specialty \in RequiredSpecialties(active_tasks'[t].category)
                    /\ "load" \in DOMAIN a
                    /\ a.load < 80]_vars

\* C22 as amended: the agent coordinator's selection is active, loaded below
\* 0.8 and capable of the request type, and it selects nobody when no agent is
\* all three; the marketplace discovery of the multi-agent verifier returns
\* only available agents whose specialty is in the category's required set
\* (code review for a category without a mapping), and looks at no load.
C22_EligibleByRegistryOrMarketplaceRules ==
    [][/\ RegistrySelectsEligible
       /\ \A t \in DOMAIN active_tasks' :
             \A i \in DOMAIN active_tasks'[t].assigned_agents :
                LET a == MockAgent(active_tasks'[t].assigned_agents[i])
                IN  /\ a.available
                    /\ a.specialty \in RequiredSpecialties(active_tasks'[t].category)]_vars

\* a request was assigned to an agent that had been assigned one before, and
\* elsewhere a task holds marketplace agents
C22_Witness ==
    \/ /\ \E i \in DOMAIN sent : sent[i].type = "WorkRequest"
       /\ \E k \in DOMAIN registered_agents : registered_agents[k].load = 20
    \/ \E t \in DOMAIN active_tasks : Len(active_tasks[t].assigned_agents) = 3

\* C23: no verification task of the multi-agent verifier and no active
\* verification of the agentverse coordinator holds more than three assigned
\* workers.
C23_AtMostThreeAssigned ==
    /\ \A t \in DOMAIN active_tasks :
          Len(active_tasks[t].assigned_agents) <= MaxAssignedAgents
    /\ \A r \in DOMAIN active_verifications :
          Len(active_verifications[r].agents) <= MaxAssignedAgents

\* a verification holds three agents of an Agentverse search that had four
\* suitable ones
C23_Witness ==
    \E r \in DOMAIN active_verifications :
        /\ Len(active_verifications[r].agents) = MaxAssignedAgents
        /\ active_verifications[r].agents[3].address = "agentverse_3"

\* C24: every worker result in the result set of a verification has its
\* confidence within [0, 1], out-of-range values being clamped before they are
\* stored or aggregated (hundredths here).
C24_StoredConfidenceWithinUnitInterval ==
    \A r \in DOMAIN active_verifications :
        /\ \A i \in DOMAIN active_verifications[r].results :
              /\ active_verifications[r].results[i].confidence_score >= 0
              /\ active_verifications[r].results[i].confidence_score <= 100
        /\ active_verifications[r].consensus # NoConsensus =>
              \A i \in DOMAIN active_verifications[r].consensus.results :
                  /\ active_verifications[r].consensus.results[i].confidence_score >= 0
                  /\ active_verifications[r].consensus.results[i].confidence_score <= 100

ArrivalOrders(n) == Permutations(1..n)

\* the results rs in the arrival order f
Arrived(rs, f) == [i \in DOMAIN rs |-> rs[f[i]]]

\* the decision of a consensus without the list of results it was made of
DecisionOf(consensus) ==
    IF consensus = NoConsensus THEN NoConsensus
    ELSE [approved |-> consensus.approved,
          approval_rate |-> consensus.approval_rate,
          confidence_score |-> consensus.confidence_score,
          agent_count |-> consensus.agent_count,
          payment_released |-> consensus.payment_released]

\* the decision the coordinator comes to for request r when the results its
\* record holds arrive in the order f: what _process_agent_result makes of the
\* last arrival, the earlier ones being on record.  Whatever the earlier
\* arrivals came to is replaced when the last one completes the count, and is no
\* consensus when it does not.
DecisionInOrder(r, verification, f) ==
    LET arrived == Arrived(verification.results, f)
        n == Len(arrived)
        before == [verification EXCEPT !.results = SubSeq(arrived, 1, n - 1),
                                       !.status = "in_progress",
                                       !.consensus = NoConsensus]
        st == ProcessAgentResult(CoordState([x \in {r} |-> before], << >>),
                                 arrived[n])
    IN  DecisionOf(st.av[r].consensus)

InvokableAgents(agents) ==
    { agents[i].address :
        i \in { j \in DOMAIN agents : /\ agents[j].name # Missing
                                      /\ agents[j].address # Missing } }

\* C27: a failing worker invocation neither prevents nor aborts the invocation
\* of the other selected workers: once the coordinator has dispatched a request,
\* its result set holds a result of every selected worker whose invocation did
\* not fail, and of no other.
C27_FailureLeavesSiblingsInvoked ==
    [][program = "agentverse" =>
       \A r \in DOMAIN active_verifications' \ DOMAIN active_verifications :
           LET verification == active_verifications'[r]
           IN  { verification.results[i].agent_address :
                   i \in DOMAIN verification.results }
                 = InvokableAgents(verification.agents)]_vars

\* the ids of the marketplace and of the registry, each in lexicographic order
LexicographicIds ==
    << "agent_a", "agent_b", "agent_code_master_001", "agent_content_sage_005",
       "agent_design_guru_002", "agent_perf_optimizer_006",
       "agent_security_hawk_003", "agent_ux_wizard_004" >>

\* id x is lexicographically smaller than id y
IdBefore(x, y) ==
    \E i, j \in DOMAIN LexicographicIds :
        i < j /\ LexicographicIds[i] = x /\ LexicographicIds[j] = y

\* the position of the marketplace agent in the marketplace's listing
ListingPosition(agent_id) ==
    CHOOSE i \in DOMAIN MockAgents : MockAgents[i].agent_id = agent_id

\* the registered agents eligible for a request type
EligibleAgents(request_type) ==
    { k \in DOMAIN registered_agents :
        /\ registered_agents[k].status = "active"
        /\ request_type \in registered_agents[k].capabilities
        /\ registered_agents[k].load < 80 }

\* success rate of a above (Cmp = 1), equal to (0) or below (-1) that of b
RateCmp(a, b) ==
    LET l == a.successful_requests * Max(b.total_requests, 1)
        r == b.successful_requests * Max(a.total_requests, 1)
    IN  IF l > r THEN 1 ELSE IF l = r THEN 0 ELSE -1

\* the agents assigned to the tasks of the next state rank by non-increasing
\* score and are the best of the eligible ones; tie(a, b) orders equal scores
RankedBestFirst(tie(_, _)) ==
    \A t \in DOMAIN active_tasks' \ DOMAIN active_tasks :
        LET ids == active_tasks'[t].assigned_agents
            eligible == SearchAgentverseAgents(
                           RequiredSpecialties(active_tasks'[t].category))
        IN  /\ Len(ids) <= 3
            /\ \A i, j \in DOMAIN ids :
                  i < j =>
                     \/ CalculateScore(MockAgent(ids[i])) > CalculateScore(MockAgent(ids[j]))
                     \/ /\ CalculateScore(MockAgent(ids[i])) = CalculateScore(MockAgent(ids[j]))
                        /\ tie(ids[i], ids[j])
            /\ \A e \in DOMAIN eligible :
                  \/ \E i \in DOMAIN ids : ids[i] = eligible[e].agent_id
                  \/ /\ Len(ids) = 3
                     /\ CalculateScore(eligible[e]) <= CalculateScore(MockAgent(ids[3]))

\* C28: discovery returns its eligible workers best-first by ranking score,
\* workers of equal score by lower load first and then by lexicographically
\* smaller id, truncated to the requested maximum; the one agent the agent
\* coordinator selects is the first of that order, its score being its success
\* rate.
C28_BestScoreFirstTiesByLoadThenId ==
    [][/\ program = "verifier" =>
            RankedBestFirst(LAMBDA x, y : /\ "load" \in DOMAIN MockAgent(x)
                                          /\ IdBefore(x, y))
       /\ program = "registry" =>
            \A sender \in Senders, msg \in WorkRequests :
               HandleWorkRequest(sender, msg) =>
                  \A i \in DOMAIN sent' :
                     sent'[i].type = "WorkRequest" =>
                        LET k == IndexOf(registered_agents, sent'[i].to, 1)
                            a == registered_agents[k]
                        IN  \A j \in EligibleAgents(msg.request_type) \ {k} :
                               LET b == registered_agents[j]
                               IN  \/ RateCmp(a, b) = 1
                                   \/ /\ RateCmp(a, b) = 0
                                      /\ \/ a.load < b.load
                                         \/ /\ a.load = b.load
                                            /\ IdBefore(a.address, b.address)]_vars

\* C28 as amended: the marketplace discovery returns its eligible agents by
\* non-increasing ranking score, agents of equal score in the order of the
\* marketplace's listing, truncated to the requested maximum; the agent
\* coordinator selects the eligible agent of lowest load, among those of equal
\* load the one of highest success rate, among those the earliest registered.
C28_RankedByScoreOrSelectedByLoad ==
    [][/\ program = "verifier" =>
            RankedBestFirst(LAMBDA x, y : ListingPosition(x) < ListingPosition(y))
       /\ program = "registry" =>
            \A sender \in Senders, msg \in WorkRequests :
               HandleWorkRequest(sender, msg) =>
                  \A i \in DOMAIN sent' :
                     sent'[i].type = "WorkRequest" =>
                        LET k == IndexOf(registered_agents, sent'[i].to, 1)
                            a == registered_agents[k]
                        IN  \A j \in EligibleAgents(msg.request_type) \ {k} :
                               LET b == registered_agents[j]
                               IN  \/ a.load < b.load
                                   \/ /\ a.load = b.load
                                      /\ \/ RateCmp(a, b) = 1
                                         \/ /\ RateCmp(a, b) = 0
                                            /\ k < j]_vars

\* a request was assigned to the agent of lower load though the other eligible
\* agent has the higher success rate
C28_Witness ==
    /\ \E i \in DOMAIN sent : sent[i].type = "WorkRequest" /\ sent[i].to = "agent_b"
    /\ \E k, j \in DOMAIN registered_agents :
          /\ registered_agents[k].address = "agent_b"
          /\ registered_agents[j].address = "agent_a"
          /\ registered_agents[j].status = "active"
          /\ "work_verification" \in registered_agents[j].capabilities
          /\ registered_agents[j].load = registered_agents[k].load
          /\ RateCmp(registered_agents[j], registered_agents[k]) = 1

\* C29: at every sweep of monitor_agents each agent whose last heartbeat is more
\* than 300 seconds old is set to status inactive and every other agent keeps
\* its status; the sweep removes no entry of the registry and changes no
\* agent's load, counters or capabilities.
C29_SweepMarksStaleInactiveOnly ==
    [][program = "registry" =>
       \A stale \in SUBSET RegisteredAddresses, old \in SUBSET DOMAIN active_requests :
          MonitorAgents(stale, old) =>
             /\ Len(registered_agents') = Len(registered_agents)
             /\ \A i \in DOMAIN registered_agents :
                   LET a == registered_agents[i]
                       b == registered_agents'[i]
                   IN  /\ b.status = IF a.address \in stale THEN "inactive" ELSE a.status
                       /\ b.address = a.address
                       /\ b.load = a.load
                       /\ b.total_requests = a.total_requests
                       /\ b.successful_requests = a.successful_requests
                       /\ b.capabilities = a.capabilities]_vars

\* "agent_b", which reports no heartbeat, was found stale with a request
\* assigned to it, and "agent_a" was not
C29_Witness ==
    \E i, j \in DOMAIN registered_agents :
        /\ registered_agents[i].address = "agent_b"
        /\ registered_agents[i].status = "inactive"
        /\ registered_agents[i].load = 10
        /\ registered_agents[j].address = "agent_a"
        /\ registered_agents[j].status = "active"

\* C30: at every sweep of monitor_agents each request that was assigned to an
\* agent (status assigned or verifying) and is older than 600 seconds is
\* logged as stuck; the sweep sends nothing, so it reassigns no request, and it
\* leaves the table of active requests as it was.
C30_SweepFlagsStuckAndLeavesThem ==
    [][program = "registry" =>
       \A stale \in SUBSET RegisteredAddresses, old \in SUBSET DOMAIN active_requests :
          MonitorAgents(stale, old) =>
             /\ warned'.stuck_requests
                   = { r \in old :
                         active_requests[r].status \in {"assigned", "verifying"} }
             /\ sent' = << >>
             /\ active_requests' = active_requests]_vars

\* a request was logged as stuck and is still assigned to its agent
C30_Witness ==
    \E r \in warned.stuck_requests :
        /\ r \in DOMAIN active_requests
        /\ active_requests[r].status = "assigned"
        /\ active_requests[r].assigned_agent = "agent_a"


\* what one call may append to the log of a conversation on record
Emissions ==
    { << >>,
      << [type |-> "agent_assessment", agent_decision |-> "needs_revision"] >>,
      << [type |-> "agent_assessment", agent_decision |-> "approved"],
         [type |-> "payment_trigger", amount_percentage |-> 20,
          trigger |-> "agent_approval"] >>,
      << [type |-> "approval_notification", amount_percentage |-> 80,
          trigger |-> "client_approval"] >>,
      << [type |-> "revision_request"] >> }

\* C31: the message log of a conversation only grows at its end: over every
\* step the earlier log is a prefix of the later one, and what the step adds is
\* what one call emits, each message once.
C31_MessageLogAppendOnly ==
    [][program = "verifier" =>
        \A c \in DOMAIN conversations :
            /\ c \in DOMAIN conversations'
            /\ Len(Messages(c)') >= Len(Messages(c))
            /\ SubSeq(Messages(c)', 1, Len(Messages(c))) = Messages(c)
            /\ SubSeq(Messages(c)', Len(Messages(c)) + 1, Len(Messages(c)'))
                   \in Emissions]_vars

\* a conversation's log received an assessment with its release and, in a later
\* call, the client's approval
C31_Witness ==
    \E c \in DOMAIN conversations :
        /\ Len(Messages(c)) >= 5
        /\ Messages(c)[1].type = "system_update"
        /\ Messages(c)[Len(Messages(c))].type = "approval_notification"


\* the runs of verify_work a step may be: the calls that start in the state
\* before the step, create task t and leave the state after the step
WorkSubmissionRuns(t) ==
    LET w == active_tasks'[t].work_data
        \* the outcomes that give the agent results the step stored, if it
        \* stored any
        Answering ==
            { o \in [1..Len(BestAgents(w.category)) -> AssessmentOutcomes] :
                t \in DOMAIN verification_results' =>
                    CoordinateAgentVerifications(BestAgents(w.category), w, o, 1)
                        = verification_results'[t].agent_results }
        runs == UNION UNION UNION
            { { { { VerifyWorkSteps(
                        VerifierState(active_tasks, verification_results, conversations),
                        t, c, w, client_id, outcomes, fallback) :
                      fallback \in FallbackOutcomes(outcomes) } :
                    outcomes \in Answering } :
                  client_id \in ClientIds } :
                c \in ConversationIds \ DOMAIN conversations }
    IN  { run \in runs :
            run[Len(run)] =
                VerifierState(active_tasks', verification_results', conversations') }

\* the conversations of a verifier state that were opened for a work item with
\* two participants, are active and hold the acknowledgement of the submission
AcknowledgedIn(st, work_id) ==
    { c \in DOMAIN st.convs :
        /\ st.convs[c].context.work_id = work_id
        /\ Len(st.convs[c].participants) = 2
        /\ st.convs[c].status = "active"
        /\ \E i \in DOMAIN st.convs[c].messages :
              st.convs[c].messages[i].type = "work_submission" }

\* C32: in every state a work submission passes through after the discovery of
\* its agents has run, the conversation of the work exists, with two
\* participants, active and holding the acknowledgement of the submission.
C32_ConversationBeforeDiscovery ==
    [][program = "verifier" =>
        \A t \in DOMAIN active_tasks' \ DOMAIN active_tasks :
            \A run \in WorkSubmissionRuns(t) :
                \A i \in DOMAIN run :
                    run[i].tasks[t].status # "discovering_agents"
                        => AcknowledgedIn(run[i], run[i].tasks[t].work_data.work_id) # {}]_vars


\* how far a status is along verify_work
StatusRank(status) ==
    CASE status = "discovering_agents" -> 1
      [] status = "agents_assigned" -> 2
      [] status = "verifying" -> 3
      [] status \in {"completed", "failed"} -> 4

\* C33: the status of a task goes from discovering over assigned and verifying
\* to completed, one stage at a time, or from a stage before the end to failed;
\* a call of verify_work leaves its task completed or failed, and no later step
\* changes a task that is completed or failed.
C33_TaskStatusMovesForward ==
    [][program = "verifier" =>
        /\ \A t \in DOMAIN active_tasks :
              active_tasks[t].status \in {"completed", "failed"}
                 => /\ t \in DOMAIN active_tasks'
                    /\ active_tasks'[t].status = active_tasks[t].status
        /\ \A t \in DOMAIN active_tasks' \ DOMAIN active_tasks :
              /\ WorkSubmissionRuns(t) # {}
              /\ \A run \in WorkSubmissionRuns(t) :
                    /\ run[1].tasks[t].status = "discovering_agents"
                    /\ run[Len(run)].tasks[t].status \in {"completed", "failed"}
                    /\ \A i \in 1..(Len(run) - 1) :
                          LET before == run[i].tasks[t].status
                              after == run[i + 1].tasks[t].status
                          IN  \/ after = before
                              \/ StatusRank(after) = StatusRank(before) + 1
                                    /\ after # "failed"
                              \/ after = "failed" /\ StatusRank(before) < 4]_vars

\* a task that failed while verifying is still failed after its conversation
\* was ended
C33_Witness ==
    \E t \in DOMAIN active_tasks :
        /\ active_tasks[t].status = "failed"
        /\ \E c \in DOMAIN conversations : conversations[c].status = "ended"


\* the percentages released by the messages of a log, summed
RECURSIVE ReleasedPercentage(_)
ReleasedPercentage(messages) ==
    IF messages = << >> THEN 0
    ELSE (IF "amount_percentage" \in DOMAIN Head(messages)
          THEN Head(messages).amount_percentage ELSE 0)
         + ReleasedPercentage(Tail(messages))

\* C34: a conversation holds at most one 80% release made on the client's
\* approval, and the percentages released in it sum to at most 100.
C34_AtMostOneFullPayment ==
    \A c \in DOMAIN conversations :
        /\ Cardinality({ i \in DOMAIN Messages(c) :
                            Messages(c)[i].type = "approval_notification" }) <= 1
        /\ ReleasedPercentage(Messages(c)) <= 100


\* C35: a WorkResponse handled while another handler of the same request waits
\* for its send to return (the request is on record as already answered) is
\* not forwarded and counts for no agent, and no handler fails on removing the
\* request.
C35_ConcurrentResponsesHandledOnce ==
    [][program = "registry" =>
        /\ Len(responding') > Len(responding)
              => LET msg == responding'[Len(responding')].msg
                 IN  active_requests[msg.request_id].status # "assigned"
                        => /\ sent' = << >>
                           /\ registered_agents' = registered_agents
        /\ \A h \in DOMAIN responding :
              responding'[h].at # "KeyError"]_vars


\* the load of the agent registered under an address, -1 if there is none
LoadOf(agents, address) ==
    LET i == IndexOf(agents, address, 1)
    IN  IF i = 0 THEN -1 ELSE agents[i].load

\* the step sent a WorkRequest to the agent at an address: the handler of the
\* request assigned it to that agent
AssignedTo(address) ==
    /\ sent' # << >>
    /\ sent'[1].type = "WorkRequest"
    /\ sent'[1].to = address

\* C36: a handled WorkResponse changes no agent's load; a load goes down only
\* where a heartbeat or a registration was handled; and an agent whose load the
\* assignments have brought to 0.8 or more is assigned no request, whether or
\* not its requests are still on record.
C36_ResponseLeavesLoad ==
    [][program = "registry" =>
        /\ \A i \in DOMAIN registered_agents :
              LET address == registered_agents[i].address
              IN  /\ LoadOf(registered_agents', address) >= 0
                  /\ \/ LoadOf(registered_agents', address) >= registered_agents[i].load
                     \/ \E msg \in AgentRegistrations :
                           /\ ValidatesAsAgentRegistration(msg)
                           /\ msg.agent_address = address
                           /\ HandleAgentRegistration(msg)
                     \/ \E msg \in AgentHeartbeats :
                           /\ msg.agent_address = address
                           /\ HandleAgentHeartbeat(msg)
        /\ \A msg \in WorkResponses :
              HandleWorkResponse(msg) =>
                  \A i \in DOMAIN registered_agents :
                      registered_agents'[i].load = registered_agents[i].load
        /\ \A i \in DOMAIN registered_agents :
              registered_agents[i].load >= 80 =>
                  ~ AssignedTo(registered_agents[i].address)]_vars

\* an agent whose load nine assignments brought past 0.8, with its responses
\* counted and no request on record, was refused a request
C36_Witness ==
    /\ \E i \in DOMAIN registered_agents :
          /\ registered_agents[i].load = 89
          /\ registered_agents[i].total_requests > 0
    /\ \A i \in DOMAIN registered_agents : registered_agents[i].load >= 80
    /\ active_requests = << >>
    /\ sent # << >>
    /\ sent[1].agent_address = "coordinator"


\* C37: a WorkResponse that names another agent than the one its request is
\* assigned to leaves the request on record as it was, is not forwarded and
\* changes no agent's counters.
C37_OnlyAssignedAgentCompletes ==
    [][program = "registry" =>
        \A msg \in WorkResponses :
            ( /\ HandleWorkResponse(msg)
              /\ msg.request_id \in DOMAIN active_requests
              /\ active_requests[msg.request_id].assigned_agent # msg.agent_address )
                => /\ active_requests' = active_requests
                   /\ sent' = << >>
                   /\ registered_agents' = registered_agents]_vars


\* C38: a work submission without deliverables is verified without the agents'
\* approval, whatever its scores and however many agents answered: every
\* agent's confidence is at most 0.45, the assessment stored is not approved,
\* and the call logs no partial-payment message.
C38_NoDeliverablesNeverApproved ==
    [][program = "verifier" =>
        \A t \in DOMAIN active_tasks' \ DOMAIN active_tasks :
            active_tasks'[t].work_data.deliverables = 0
                => /\ \A c \in DOMAIN conversations' \ DOMAIN conversations :
                         \A i \in DOMAIN Messages(c)' :
                             Messages(c)'[i].type # "payment_trigger"
                   /\ t \in DOMAIN verification_results'
                         => LET result == verification_results'[t]
                            IN  /\ ~ result.final_assessment.approved
                                /\ \A i \in DOMAIN result.agent_results :
                                      result.agent_results[i].confidence <= 45
                                /\ ~ FracGE(result.final_assessment.confidence,
                                            Frac(6, 10))]_vars

\* three agents answered a submission without deliverables with scores that
\* reach the score threshold
C38_Witness ==
    \E t \in DOMAIN verification_results :
        LET result == verification_results[t]
        IN  /\ result.task.work_data.deliverables = 0
            /\ Len(result.agent_results) = 3
            /\ FracGE(result.final_assessment.overall_score, Frac(75, 100))
            /\ active_tasks[t].status = "completed"


\* C39: an agent whose status is not "active" - a sweep marked it inactive - is
\* assigned no request, and its status becomes "active" again only where a
\* heartbeat reporting "active" or a registration for it was handled.
C39_InactiveAgentNotAssigned ==
    [][program = "registry" =>
        \A i \in DOMAIN registered_agents :
            registered_agents[i].status # "active" =>
                LET address == registered_agents[i].address
                IN  /\ ~ AssignedTo(address)
                    /\ registered_agents'[i].address = address
                    /\ \/ registered_agents'[i].status # "active"
                       \/ \E msg \in AgentRegistrations :
                             /\ ValidatesAsAgentRegistration(msg)
                             /\ msg.agent_address = address
                             /\ HandleAgentRegistration(msg)
                       \/ \E msg \in AgentHeartbeats :
                             /\ msg.agent_address = address
                             /\ msg.status = "active"
                             /\ HandleAgentHeartbeat(msg)]_vars

\* the only agent on record, which reports no heartbeats, was marked inactive
\* by a sweep, and a request it could have served was refused
C39_Witness ==
    /\ Len(registered_agents) = 1
    /\ registered_agents[1].address = "agent_b"
    /\ registered_agents[1].status = "inactive"
    /\ registered_agents[1].load < 80
    /\ sent # << >>
    /\ sent[1].type = "WorkResponse"
    /\ sent[1].agent_address = "coordinator"


\* C40: every registered agent has 0 <= successful_requests <= total_requests.
C40_SuccessesWithinTotal ==
    \A i \in DOMAIN registered_agents :
        /\ 0 <= registered_agents[i].successful_requests
        /\ registered_agents[i].successful_requests <= registered_agents[i].total_requests

\* an agent answered two requests, one of them with success
C40_Witness ==
    \E i \in DOMAIN registered_agents :
        /\ registered_agents[i].total_requests = 2
        /\ registered_agents[i].successful_requests = 1

=============================================================================
